---- MODULE Spec2Model ----
(***************************************************************************)
(* JobSwipe server: the asynchronous application pipeline                  *)
(* (POST /api/apply/async and its setImmediate background task), the token *)
(* manager it calls, the swipe routes and the application routes that      *)
(* touch the same tables.  Every await of the source is one step, so that  *)
(* requests and background tasks interleave as they do on the event loop.  *)
(***************************************************************************)
EXTENDS Integers, Sequences, FiniteSets, TLC

\* ------------------------------------------------------------------------
\* Bounds of the model
\* ------------------------------------------------------------------------
MaxApply == 2      \* POST /api/apply/async requests per behaviour
MaxFairApply == 1  \* the same, in the behaviours checked for liveness
MaxSwipeReq == 2   \* POST /api/swipes requests per behaviour
MaxBatchReq == 1   \* scoring requests per behaviour, long batches
MaxCalc == 2       \* scoring requests per behaviour, next to swipes
MaxCacheSwipe == 1 \* swipe requests per behaviour, next to the scorer
MaxResumeReq == 2  \* callback, sync and select requests per behaviour
MaxSearch == 2     \* GET /api/hh/jobs requests per behaviour
MaxScoreReq == 1   \* scoring requests per behaviour, every model answer
MaxAreasReq == 3   \* GET /api/hh/areas requests per behaviour
ClockStep == 1800000  \* milliseconds between two readings of the clock
MaxTick == 4       \* readings of the clock per behaviour
MaxSearchToken == 2  \* searches the page starts per behaviour
PageSize == 6      \* vacancies of one page of search results
MaxBatch == 2      \* the last page the page asks for
MaxFlights == 2    \* unanswered requests of the page when a card is swiped
MaxRows == 2       \* rows of the applications table, next to POST /api/applications

\* ------------------------------------------------------------------------
\* Values
\* ------------------------------------------------------------------------
NULL == "NULL"                     \* SQL NULL / JS null / undefined
UserIds == {"u1"}
VacancyIds == {"v1"}
Snapshots == {NULL, "snap"}        \* req.body.vacancyData absent / present
\* request bodies of POST /api/apply/async: the client's authenticated and
\* demo bodies, a body that sets isDemo for a user and sends no snapshot, a
\* body without user and without isDemo, and a body without vacancyId; each
\* carries the resume text the client holds
CallerText == "callerText"
ApplyBodies ==
  { [userId |-> "u1", vacancyId |-> "v1", vacancyData |-> "snap",
     resumeText |-> CallerText, isDemo |-> FALSE],
    [userId |-> NULL, vacancyId |-> "v1", vacancyData |-> "snap",
     resumeText |-> CallerText, isDemo |-> TRUE],
    [userId |-> "u1", vacancyId |-> "v1", vacancyData |-> NULL,
     resumeText |-> CallerText, isDemo |-> TRUE],
    [userId |-> NULL, vacancyId |-> "v1", vacancyData |-> NULL,
     resumeText |-> CallerText, isDemo |-> FALSE],
    [userId |-> "u1", vacancyId |-> NULL, vacancyData |-> "snap",
     resumeText |-> CallerText, isDemo |-> FALSE] }
Directions == {"left", "right"}

\* placeholder strings of the route and the strings of a present snapshot
DefaultJobTitle == "Vakansiya"
DefaultCompany == "Kompaniya"
SnapTitle == "snapTitle"
SnapCompany == "snapCompany"

\* error reasons written by the background phase
ErrNotAuth == "Ne avtorizovan na hh.ru"
ErrNoResume == "Ne vybrano rezyume"
ErrInternal == "Vnutrennyaya oshibka obrabotki"
ErrApi == "apiError"               \* description/error/HTTP nnn of the HH API
\* the apology the route substitutes when generateCoverLetter throws
ApologyLetter == "Oshibka generatsii soprovoditelnogo pisma."

VARIABLES
  users,         \* users table: userId -> token columns
  resumes,       \* resumes table: set of rows
  applications,  \* applications table: sequence, row id = index (serial)
  swipes,        \* swipes table: sequence, row id = index (serial)
  compat,        \* ai_compatibility table: sequence of rows
  delq,          \* deleteCompatibility statements sent and not yet executed
  areq,          \* POST /api/apply/async requests: sequence of records
  tasks,         \* setImmediate background tasks, indexed like applications
  sreq,          \* POST /api/swipes requests: sequence of records
  crashed,       \* the node process has exited (unhandled rejection)
  creq,          \* POST /api/ai-compatibility/calc requests
  rreq,          \* OAuth callback, resume sync and select-resume requests
  jreq,          \* GET /api/hh/jobs requests
  hhAreasCache,           \* module variable of the routes: <<>> is null
  hhAreasCacheUpdatedAt,  \* module variable of the routes: 0 is null
  greq,          \* GET /api/hh/areas requests
  clock,         \* Date.now() of the server, in milliseconds
  page,          \* state and refs of the VacanciesPage component
  flights        \* requests of the page that are not yet answered

vars == <<users, resumes, applications, swipes, compat, delq, areq, tasks,
          sreq, crashed, creq, rreq, jreq, hhAreasCache,
          hhAreasCacheUpdatedAt, greq, clock, page, flights>>

\* the region list of the server and the page of the client
rest == <<hhAreasCache, hhAreasCacheUpdatedAt, greq, clock, page, flights>>

\* the VacanciesPage component after its first render: the useState and
\* useRef initial values; userId is the localStorage entry.  `stale` records
\* that an answer was dropped by a search-token test
NewPage ==
  [jobs |-> <<>>, batch |-> 1, hasMore |-> TRUE, isLoadingMore |-> FALSE,
   compatibilityMap |-> {}, searchTokenRef |-> 0, currentIndex |-> 0,
   history |-> <<>>, swipedIds |-> {}, appliedFilters |-> NULL,
   isSearching |-> FALSE, isSwiping |-> FALSE, userId |-> "u1",
   stale |-> FALSE]

\* the process has started and the page has rendered
RestInit ==
  /\ hhAreasCache = <<>>
  /\ hhAreasCacheUpdatedAt = 0
  /\ greq = <<>>
  /\ clock = ClockStep
  /\ page = NewPage
  /\ flights = {}

\* the requests of the other routes
others == <<creq, rreq, jreq>>

\* ------------------------------------------------------------------------
\* Tables
\* ------------------------------------------------------------------------
\* users.hh_access_token, hh_refresh_token, hh_token_expires_at; the expiry
\* column is kept as the result of comparing it with the clock.
NoTokens == [hhAccessToken |-> NULL, hhRefreshToken |-> NULL,
             hhTokenExpiresAt |-> NULL]
ValidTokens == [hhAccessToken |-> "a0", hhRefreshToken |-> "r0",
                hhTokenExpiresAt |-> "future"]
ExpiredTokens == [hhAccessToken |-> "a0", hhRefreshToken |-> "r0",
                  hhTokenExpiresAt |-> "past"]
TokenStates == {NoTokens, ValidTokens, ExpiredTokens}
\* a token pair stored without expiry (the column is nullable)
NoExpiryTokens == [hhAccessToken |-> "a0", hhRefreshToken |-> "r0",
                   hhTokenExpiresAt |-> NULL]

\* resumes rows; NoResume stands for "no row returned"
NoResume == [id |-> NULL, userId |-> NULL, hhResumeId |-> NULL,
             content |-> "", selected |-> FALSE]
HHResume(u) == [id |-> "res1", userId |-> u, hhResumeId |-> "h1",
                content |-> "hhText", selected |-> TRUE]
ManualResume(u) == [id |-> "res1", userId |-> u, hhResumeId |-> NULL,
                    content |-> "manualText", selected |-> TRUE]
ResumeTables == {{}, {HHResume("u1")}, {ManualResume("u1")}}

SwipeRow(u, v, d) == [userId |-> u, vacancyId |-> v, direction |-> d]
CompatKey(u, v) == [userId |-> u, vacancyId |-> v]
\* (variant: the explanation is not stored)
CompatRowNoExplanation(u, v, score, color, explanation) ==
  [userId |-> u, vacancyId |-> v, score |-> score, color |-> color,
   explanation |-> ""]
CompatRow(u, v, score, color, explanation) ==
  [userId |-> u, vacancyId |-> v, score |-> score, color |-> color,
   explanation |-> explanation]
\* the rows `where user_id = u and vacancy_id = v` matches
CompatMatches(rows, u, v) ==
  {i \in DOMAIN rows : rows[i].userId = u /\ rows[i].vacancyId = v}
\* db.delete(aiCompatibility).where(user_id = u and vacancy_id = v)
DeleteCompatRows(rows, u, v) ==
  SelectSeq(rows, LAMBDA x : ~(x.userId = u /\ x.vacancyId = v))

\* ------------------------------------------------------------------------
\* POST /api/apply/async, synchronous phase
\* ------------------------------------------------------------------------
NoResp == [http |-> 0, status |-> NULL, applicationId |-> 0]
BadRequest == [http |-> 400, status |-> NULL, applicationId |-> 0]
Queued(id) == [http |-> 200, status |-> "queued", applicationId |-> id]

\* vacancyData?.title || placeholder, vacancyData?.company || placeholder
JobTitleOf(vd) == IF vd = NULL THEN DefaultJobTitle ELSE SnapTitle
CompanyOf(vd) == IF vd = NULL THEN DefaultCompany ELSE SnapCompany

\* (variant: the row is created already `queued`, with an empty letter)
InsertedRowQueued(u, v, vd) ==
  [userId |-> u, vacancyId |-> v, jobTitle |-> JobTitleOf(vd),
   company |-> CompanyOf(vd), resumeId |-> NULL, coverLetter |-> "",
   hhNegotiationId |-> NULL, status |-> "queued", errorReason |-> NULL]

\* the row of db.insert(applications).values({...})
InsertedRow(u, v, vd) ==
  [userId |-> u, vacancyId |-> v, jobTitle |-> JobTitleOf(vd),
   company |-> CompanyOf(vd), resumeId |-> NULL, coverLetter |-> NULL,
   hhNegotiationId |-> NULL, status |-> "pending", errorReason |-> NULL]

\* (variant: no second row for a user and vacancy that have one)
ApplyInsertRowsDedup(rows, u, v, vd) ==
  IF \E i \in DOMAIN rows : rows[i].userId = u /\ rows[i].vacancyId = v
  THEN rows
  ELSE Append(rows, InsertedRow(u, v, vd))

\* the insert is unconditional: no look-up of earlier rows or swipes
ApplyInsertRows(rows, u, v, vd) == Append(rows, InsertedRow(u, v, vd))

KEEP == "KEEP"    \* column absent from the SET clause of an update
NoSet == [coverLetter |-> KEEP, status |-> KEEP, errorReason |-> KEEP,
          hhNegotiationId |-> KEEP, resumeId |-> KEEP]
NoResult == [id |-> NULL, error |-> NULL]

\* a row's task before setImmediate has scheduled it.  pc and the fields up
\* to set are the closure's position and locals; the others record what the
\* task has done: the resume text given to the generator, the numbers of
\* calls and row updates, what the token manager met (tok), the answer of
\* the negotiations endpoint (hh), how the generator ended (gen), whether a
\* store statement threw (storeErr) and whether an update of the row did
\* (writeErr)
IdleTask ==
  [pc |-> "none", userId |-> NULL, vacancyId |-> NULL, isDemo |-> FALSE,
   resumeTextFinal |-> "", coverLetter |-> "", accessToken |-> NULL,
   selectedResume |-> NoResume, result |-> NoResult, set |-> NoSet,
   genInput |-> NULL, genCalls |-> 0, tokenCalls |-> 0, refreshCalls |-> 0,
   applyCalls |-> 0, writes |-> 0, tok |-> "none", hh |-> "none",
   gen |-> "none", storeErr |-> FALSE, writeErr |-> FALSE]

\* the task as setImmediate queues it, after res.json
SpawnedTask(u, v, demo) ==
  [IdleTask EXCEPT !.pc = "loadResume", !.userId = u, !.vacancyId = v,
                   !.isDemo = demo]

\* (variant: setImmediate is called before res.json)
TaskScheduledEarly(u, v, demo) ==
  [IdleTask EXCEPT !.pc = "loadResume", !.userId = u, !.vacancyId = v,
                   !.isDemo = demo]

\* what the handler has scheduled when the insert has returned and the
\* response is not yet sent: nothing
TaskAfterInsert(u, v, demo) == IdleTask

Init ==
  /\ users \in [UserIds -> TokenStates]
  /\ resumes \in ResumeTables
  /\ applications = <<>>
  /\ swipes = <<SwipeRow("u1", "v1", "right")>>
  /\ compat = <<CompatRow("u1", "v1", 80, "green", "stored")>>
  /\ delq = {}
  /\ areq = <<>>
  /\ tasks = <<>>
  /\ sreq = <<>>
  /\ crashed = FALSE
  /\ creq = <<>>
  /\ rreq = <<>>
  /\ jreq = <<>>
  /\ RestInit

\* (variant: the vacancy id is not checked)
ApplyReceiveUnchecked(b, limit) ==
  /\ ~crashed
  /\ Len(areq) < limit
  /\ areq' = Append(areq,
       [userId |-> b.userId, vacancyId |-> b.vacancyId,
        vacancyData |-> b.vacancyData, resumeText |-> b.resumeText,
        isDemo |-> b.isDemo, pc |-> "insert", appId |-> 0, resp |-> NoResp])
  /\ UNCHANGED <<rest, others, users, resumes, applications, swipes, compat, delq, tasks,
                 sreq, crashed>>

\* request arrives; `if (!vacancyId) return res.status(400)`; otherwise the
\* insert statement is sent
ApplyReceive(b, limit) ==
  /\ ~crashed
  /\ Len(areq) < limit
  /\ areq' = Append(areq,
       [userId |-> b.userId, vacancyId |-> b.vacancyId,
        vacancyData |-> b.vacancyData, resumeText |-> b.resumeText,
        isDemo |-> b.isDemo,
        pc |-> IF b.vacancyId = NULL THEN "done" ELSE "insert",
        appId |-> 0,
        resp |-> IF b.vacancyId = NULL THEN BadRequest ELSE NoResp])
  /\ UNCHANGED <<rest, others, users, resumes, applications, swipes, compat, delq, tasks,
                 sreq, crashed>>

\* the database executes the insert and returns the row
ApplyInsert(r) ==
  /\ ~crashed
  /\ r \in DOMAIN areq
  /\ areq[r].pc = "insert"
  /\ LET q == areq[r] IN
     /\ applications' =
          ApplyInsertRows(applications, q.userId, q.vacancyId, q.vacancyData)
     /\ tasks' = [a \in 1..Len(applications') |->
                    IF a \in DOMAIN tasks THEN tasks[a]
                    ELSE TaskAfterInsert(q.userId, q.vacancyId, q.isDemo)]
     /\ areq' = [areq EXCEPT ![r].pc = "respond",
                             ![r].appId = Len(applications')]
  /\ UNCHANGED <<rest, others, users, resumes, swipes, compat, delq, sreq, crashed>>

\* continuation after the insert: deleteCompatibility is sent and not
\* awaited, res.json, setImmediate
ApplyRespond(r) ==
  /\ ~crashed
  /\ r \in DOMAIN areq
  /\ areq[r].pc = "respond"
  /\ LET q == areq[r] IN
     /\ delq' = IF q.userId # NULL
                THEN delq \cup {CompatKey(q.userId, q.vacancyId)}
                ELSE delq
     /\ areq' = [areq EXCEPT ![r].pc = "done", ![r].resp = Queued(q.appId)]
     /\ tasks' = [tasks EXCEPT
                    ![q.appId] = SpawnedTask(q.userId, q.vacancyId, q.isDemo)]
  /\ UNCHANGED <<rest, others, users, resumes, applications, swipes, compat, sreq, crashed>>

\* DbStorage.deleteCompatibility: the database executes the delete
DeleteCompatExec(k) ==
  /\ ~crashed
  /\ k \in delq
  /\ compat' = DeleteCompatRows(compat, k.userId, k.vacancyId)
  /\ delq' = delq \ {k}
  /\ UNCHANGED <<rest, others, users, resumes, applications, swipes, areq, tasks, sreq,
                 crashed>>

\* ------------------------------------------------------------------------
\* Collaborators of the background phase
\* ------------------------------------------------------------------------
\* `const [selectedResume] = await db.select()...where(userId, selected)`:
\* the rows the query may return first; NoResume when it returns none
\* (user_id = NULL matches no row)
SelectedResumeRows(u) ==
  LET rows == {x \in resumes : u # NULL /\ x.userId = u /\ x.selected}
  IN IF rows = {} THEN {NoResume} ELSE rows

\* generateCoverLetter returns a string (the sanitized model text, or
\* fallbackLetter(vacancy) on a missing key, a non-2xx answer, an empty
\* answer or a failed fetch) or throws before its own try (vacancy.tags)
LLMOutcomes == {"returns", "throws"}
GeneratedLetter == "letter"

\* answers of POST https://api.hh.ru/negotiations; location is the Location
\* header split at "/", <<>> when the header is absent
HHCreated == [status |-> 201, location |-> <<"negotiations", "n1">>,
              description |-> NULL, error |-> NULL]
HHOkNoLocation == [status |-> 200, location |-> <<>>,
                   description |-> NULL, error |-> NULL]
HHRejected == [status |-> 403, location |-> <<>>,
               description |-> ErrApi, error |-> "forbidden"]
HHResponses == {HHCreated, HHOkNoLocation, HHRejected}

HttpOk(status) == status >= 200 /\ status <= 299
HttpStatusText(status) == IF status = 500 THEN "HTTP 500" ELSE "HTTP nnn"

HHKind(response) ==
  IF response = HHCreated THEN "created"
  ELSE IF HttpOk(response.status) THEN "okNoLocation" ELSE "rejected"

\* applyToVacancy(accessToken, vacancyId, resumeId, message)
ApplyToVacancy(response) ==
  IF response.status = 201 /\ Len(response.location) > 0
  THEN [id |-> response.location[Len(response.location)], error |-> NULL]
  ELSE IF ~HttpOk(response.status)
  THEN [id |-> NULL,
        error |-> IF response.description # NULL THEN response.description
                  ELSE IF response.error # NULL THEN response.error
                  ELSE HttpStatusText(response.status)]
  ELSE NoResult

\* the token pair of a successful refresh_token grant
RefreshedTokens == [hhAccessToken |-> "a1", hhRefreshToken |-> "r1",
                    hhTokenExpiresAt |-> "future"]

\* ------------------------------------------------------------------------
\* SET clauses of the background phase
\* ------------------------------------------------------------------------
DemoSet(cl) == [NoSet EXCEPT !.coverLetter = cl, !.status = "demo"]
\* (variant: the token check precedes the generation, no letter is stored)
NotAuthSetNoLetter(cl) ==
  [NoSet EXCEPT !.status = "failed", !.errorReason = ErrNotAuth]
NotAuthSet(cl) == [NoSet EXCEPT !.coverLetter = cl, !.status = "failed",
                                !.errorReason = ErrNotAuth]
NoResumeSet(cl) == [NoSet EXCEPT !.coverLetter = cl, !.status = "failed",
                                 !.errorReason = ErrNoResume]
ApiFailedSet(cl, res, result) ==
  [NoSet EXCEPT !.coverLetter = cl, !.resumeId = res.id,
                !.status = "failed", !.errorReason = result.error]
\* (variant: the negotiation id is not stored)
SuccessSetNoId(cl, res, result) ==
  [NoSet EXCEPT !.coverLetter = cl, !.resumeId = res.id,
                !.status = "success"]
SuccessSet(cl, res, result) ==
  [NoSet EXCEPT !.coverLetter = cl, !.resumeId = res.id,
                !.status = "success", !.hhNegotiationId = result.id]
\* (variant: the catch stores the `not authenticated` reason)
CatchSetNotAuth == [NoSet EXCEPT !.status = "failed", !.errorReason = ErrNotAuth]
CatchSet == [NoSet EXCEPT !.status = "failed", !.errorReason = ErrInternal]

\* db.update(applications).set(set).where(eq(applications.id, id))
ApplySet(row, set) ==
  [f \in DOMAIN row |->
     IF f \in DOMAIN set /\ set[f] # KEEP THEN set[f] ELSE row[f]]

\* (variant: every task updates the row created first)
TargetRowFirst(a) == 1

\* the row the task updates: its own pendingApp.id
TargetRow(a) == a

\* (variant: the submission is tried again)
RetryApply == "apply"

\* where the task goes after applyToVacancy has returned an error: it sends
\* the failed update, it does not call again
AfterApplyError == "write"

\* (variant: only the flag is tested)
IsDemoFlagOnly(t) == t.isDemo

\* `if (isDemo || !userId)`
IsDemoPath(t) == t.isDemo \/ t.userId = NULL

SetTask(a, t) == tasks' = [tasks EXCEPT ![a] = t]

\* the callback has returned: its locals are gone
Returned(t) ==
  [t EXCEPT !.pc = "done", !.resumeTextFinal = "", !.coverLetter = "",
            !.accessToken = NULL, !.selectedResume = NoResume,
            !.result = NoResult, !.set = NoSet]

\* (variant: the catch only logs)
OnThrowLogOnly(t) ==
  [t EXCEPT !.pc = "done", !.resumeTextFinal = "", !.coverLetter = "",
            !.accessToken = NULL, !.selectedResume = NoResume,
            !.result = NoResult, !.set = NoSet]

\* `catch (bgError)`: the outer catch sends its own update of the row
OnThrow(t) == [t EXCEPT !.set = CatchSet, !.pc = "catchWrite"]

TaskAt(a, pcs) == ~crashed /\ a \in DOMAIN tasks /\ tasks[a].pc \in pcs

\* ------------------------------------------------------------------------
\* Background phase, one action per awaited call
\* ------------------------------------------------------------------------
\* first resume look-up (inside its own try) returns
BgLoadResume(a) ==
  /\ TaskAt(a, {"loadResume"})
  /\ \E sel \in SelectedResumeRows(tasks[a].userId) :
       SetTask(a, [tasks[a] EXCEPT
                     !.resumeTextFinal =
                        IF sel = NoResume THEN "" ELSE sel.content,
                     !.pc = "generate"])
  /\ UNCHANGED <<rest, others, users, resumes, applications, swipes, compat, delq, areq,
                 sreq, crashed>>

\* the look-up throws: `catch (e) { console.log(...) }`
BgLoadResumeThrows(a) ==
  /\ TaskAt(a, {"loadResume"})
  /\ SetTask(a, [tasks[a] EXCEPT !.resumeTextFinal = "", !.storeErr = TRUE,
                                 !.pc = "generate"])
  /\ UNCHANGED <<rest, others, users, resumes, applications, swipes, compat, delq, areq,
                 sreq, crashed>>

\* generateCoverLetter(resumeTextFinal, vacancy) returns or throws; then
\* `if (isDemo || !userId)` sends the demo update, otherwise
\* getValidAccessToken sends its select
BgGenerate(a, outcome) ==
  /\ TaskAt(a, {"generate"})
  /\ LET t == tasks[a]
         cl == IF outcome = "throws" THEN ApologyLetter
               ELSE GeneratedLetter
         t1 == [t EXCEPT !.coverLetter = cl, !.genInput = t.resumeTextFinal,
                         !.genCalls = @ + 1, !.gen = outcome]
     IN IF IsDemoPath(t)
        THEN SetTask(a, [t1 EXCEPT !.set = DemoSet(cl), !.pc = "write"])
        ELSE SetTask(a, [t1 EXCEPT !.tokenCalls = @ + 1, !.pc = "tokSelect"])
  /\ UNCHANGED <<rest, others, users, resumes, applications, swipes, compat, delq, areq,
                 sreq, crashed>>

\* (variant: a token stored without expiry is taken as valid)
BgTokenSelectNoExpiryValid(a) ==
  /\ TaskAt(a, {"tokSelect"})
  /\ LET t == tasks[a]
         user == IF t.userId \in DOMAIN users THEN users[t.userId]
                 ELSE NoTokens
     IN IF user.hhAccessToken = NULL \/ user.hhRefreshToken = NULL
        THEN SetTask(a, [t EXCEPT !.set = NotAuthSet(t.coverLetter),
                                  !.tok = "missing", !.pc = "write"])
        ELSE IF user.hhTokenExpiresAt # "past"
        THEN SetTask(a, [t EXCEPT !.accessToken = user.hhAccessToken,
                                  !.tok = "valid", !.pc = "resume2"])
        ELSE SetTask(a, [t EXCEPT !.tok = "expired", !.pc = "refresh"])
  /\ UNCHANGED <<rest, others, users, resumes, applications, swipes, compat, delq, areq,
                 sreq, crashed>>

\* getValidAccessToken: the users row is read
BgTokenSelect(a) ==
  /\ TaskAt(a, {"tokSelect"})
  /\ LET t == tasks[a]
         user == IF t.userId \in DOMAIN users THEN users[t.userId]
                 ELSE NoTokens
     IN IF user.hhAccessToken = NULL \/ user.hhRefreshToken = NULL
        THEN SetTask(a, [t EXCEPT !.set = NotAuthSet(t.coverLetter),
                                  !.tok = "missing", !.pc = "write"])
        ELSE IF user.hhTokenExpiresAt = "future"
        THEN SetTask(a, [t EXCEPT !.accessToken = user.hhAccessToken,
                                  !.tok = "valid", !.pc = "resume2"])
        ELSE SetTask(a, [t EXCEPT !.tok = "expired", !.pc = "refresh"])
  /\ UNCHANGED <<rest, others, users, resumes, applications, swipes, compat, delq, areq,
                 sreq, crashed>>

\* (variant: a failed refresh clears the stored tokens)
BgRefreshClearsTokens(a, ok) ==
  /\ TaskAt(a, {"refresh"})
  /\ LET t == [tasks[a] EXCEPT !.refreshCalls = @ + 1]
     IN IF ok
        THEN SetTask(a, [t EXCEPT !.pc = "tokUpdate"]) /\ users' = users
        ELSE /\ SetTask(a, [t EXCEPT !.set = NotAuthSet(t.coverLetter),
                                     !.tok = "refreshFailed", !.pc = "write"])
             /\ users' = [users EXCEPT ![t.userId] = NoTokens]
  /\ UNCHANGED <<rest, others, resumes, applications, swipes, compat, delq, areq,
                 sreq, crashed>>

\* refreshHHToken returns a token pair (ok) or throws (network error,
\* non-2xx answer): `catch (error) { return null }`
BgRefresh(a, ok) ==
  /\ TaskAt(a, {"refresh"})
  /\ LET t == [tasks[a] EXCEPT !.refreshCalls = @ + 1]
     IN IF ok
        THEN SetTask(a, [t EXCEPT !.pc = "tokUpdate"])
        ELSE SetTask(a, [t EXCEPT !.set = NotAuthSet(t.coverLetter),
                                  !.tok = "refreshFailed", !.pc = "write"])
  /\ UNCHANGED <<rest, others, users, resumes, applications, swipes, compat, delq, areq,
                 sreq, crashed>>

\* db.update(users) with the refreshed pair; the new access token is returned
BgTokenUpdate(a) ==
  /\ TaskAt(a, {"tokUpdate"})
  /\ users' = [users EXCEPT ![tasks[a].userId] = RefreshedTokens]
  /\ SetTask(a, [tasks[a] EXCEPT
                   !.accessToken = RefreshedTokens.hhAccessToken,
                   !.tok = "refreshed", !.pc = "resume2"])
  /\ UNCHANGED <<rest, others, resumes, applications, swipes, compat, delq, areq, sreq,
                 crashed>>

\* that update throws inside the try of getValidAccessToken: null is returned
BgTokenUpdateThrows(a) ==
  /\ TaskAt(a, {"tokUpdate"})
  /\ SetTask(a, [tasks[a] EXCEPT !.set = NotAuthSet(tasks[a].coverLetter),
                                 !.storeErr = TRUE, !.pc = "write"])
  /\ UNCHANGED <<rest, others, users, resumes, applications, swipes, compat, delq, areq,
                 sreq, crashed>>

\* variant: the look-up tests only `!selectedResume`, a selected resume
\* without external id goes on to the submission
BgSelectResumeAnySelected(a) ==
  /\ TaskAt(a, {"resume2"})
  /\ \E sel \in SelectedResumeRows(tasks[a].userId) :
       LET t == tasks[a] IN
       IF sel = NoResume
       THEN SetTask(a, [t EXCEPT !.set = NoResumeSet(t.coverLetter),
                                 !.pc = "write"])
       ELSE SetTask(a, [t EXCEPT !.selectedResume = sel, !.pc = "apply"])
  /\ UNCHANGED <<rest, others, users, resumes, applications, swipes, compat, delq, areq,
                 sreq, crashed>>
\* second resume look-up; `if (!selectedResume || !selectedResume.hhResumeId)`
BgSelectResume(a) ==
  /\ TaskAt(a, {"resume2"})
  /\ \E sel \in SelectedResumeRows(tasks[a].userId) :
       LET t == tasks[a] IN
       IF sel = NoResume \/ sel.hhResumeId = NULL
       THEN SetTask(a, [t EXCEPT !.set = NoResumeSet(t.coverLetter),
                                 !.pc = "write"])
       ELSE SetTask(a, [t EXCEPT !.selectedResume = sel, !.pc = "apply"])
  /\ UNCHANGED <<rest, others, users, resumes, applications, swipes, compat, delq, areq,
                 sreq, crashed>>

\* a select outside any inner try throws (users row or second resume
\* look-up): the outer catch sends its update
BgSelectThrows(a) ==
  /\ TaskAt(a, {"tokSelect", "resume2"})
  /\ SetTask(a, OnThrow([tasks[a] EXCEPT !.storeErr = TRUE]))
  /\ UNCHANGED <<rest, others, users, resumes, applications, swipes, compat, delq, areq,
                 sreq, crashed>>

\* applyToVacancy returns for an HTTP answer
BgApply(a, response) ==
  /\ TaskAt(a, {"apply"})
  /\ LET t == [tasks[a] EXCEPT !.applyCalls = @ + 1,
                               !.result = ApplyToVacancy(response),
                               !.hh = HHKind(response)]
     IN IF t.result.error # NULL
        THEN SetTask(a, [t EXCEPT
                           !.set = ApiFailedSet(t.coverLetter,
                                                t.selectedResume, t.result),
                           !.pc = AfterApplyError])
        ELSE SetTask(a, [t EXCEPT
                           !.set = SuccessSet(t.coverLetter,
                                              t.selectedResume, t.result),
                           !.pc = "write"])
  /\ UNCHANGED <<rest, others, users, resumes, applications, swipes, compat, delq, areq,
                 sreq, crashed>>

\* the fetch of applyToVacancy rejects: outer catch
BgApplyThrows(a) ==
  /\ TaskAt(a, {"apply"})
  /\ SetTask(a, OnThrow([tasks[a] EXCEPT !.applyCalls = @ + 1,
                                         !.hh = "threw"]))
  /\ UNCHANGED <<rest, others, users, resumes, applications, swipes, compat, delq, areq,
                 sreq, crashed>>

\* the database executes the update the task has sent; the task returns
BgWrite(a) ==
  /\ TaskAt(a, {"write", "catchWrite"})
  /\ applications' =
       [applications EXCEPT
          ![TargetRow(a)] = ApplySet(applications[TargetRow(a)], tasks[a].set)]
  /\ SetTask(a, Returned([tasks[a] EXCEPT !.writes = @ + 1]))
  /\ UNCHANGED <<rest, others, users, resumes, swipes, compat, delq, areq, sreq, crashed>>

\* an update of the try block throws: outer catch sends its update
BgWriteThrows(a) ==
  /\ TaskAt(a, {"write"})
  /\ SetTask(a, OnThrow([tasks[a] EXCEPT !.storeErr = TRUE,
                                         !.writeErr = TRUE]))
  /\ UNCHANGED <<rest, others, users, resumes, applications, swipes, compat, delq, areq,
                 sreq, crashed>>

\* the update of the catch block throws: the async callback rejects, nothing
\* handles the rejection and node exits
BgCatchWriteThrows(a) ==
  /\ TaskAt(a, {"catchWrite"})
  /\ SetTask(a, [Returned(tasks[a]) EXCEPT !.storeErr = TRUE,
                                           !.writeErr = TRUE,
                                           !.pc = "rejected"])
  /\ crashed' = TRUE
  /\ UNCHANGED <<rest, others, users, resumes, applications, swipes, compat, delq, areq,
                 sreq>>

\* ------------------------------------------------------------------------
\* PATCH /api/applications/:id/cover-letter
\* ------------------------------------------------------------------------
EditedLetter == "edited"

\* (variant: the edit also puts the row back in the queue)
UpdateCoverLetterAndRequeue(rows, id, text) ==
  IF id \in DOMAIN rows
  THEN [rows EXCEPT ![id].coverLetter = text, ![id].status = "pending"]
  ELSE rows

\* DbStorage.updateApplicationCoverLetter(id, coverLetter)
UpdateApplicationCoverLetter(rows, id, text) ==
  IF id \in DOMAIN rows THEN [rows EXCEPT ![id].coverLetter = text] ELSE rows

PatchCoverLetter(id) ==
  /\ ~crashed
  /\ id \in DOMAIN applications
  /\ applications[id].coverLetter # EditedLetter
  /\ applications' =
       UpdateApplicationCoverLetter(applications, id, EditedLetter)
  /\ UNCHANGED <<rest, others, users, resumes, swipes, compat, delq, areq, tasks, sreq,
                 crashed>>

\* ------------------------------------------------------------------------
\* POST /api/swipes, POST /api/swipes/reset
\* ------------------------------------------------------------------------
SwipeUsers == {"u1", "u2"}
SwipeVacancies == {"v1", "v2"}
SwipeBodies ==
  [userId : SwipeUsers, vacancyId : SwipeVacancies, direction : Directions]
  \cup { [userId |-> NULL, vacancyId |-> "v1", direction |-> "left"],
         [userId |-> "u1", vacancyId |-> NULL, direction |-> "right"],
         [userId |-> "u1", vacancyId |-> "v1", direction |-> "up"] }

NoSwipeResp == [http |-> 0, alreadySwiped |-> FALSE, swipe |-> 0]
SwipeBadRequest == [http |-> 400, alreadySwiped |-> FALSE, swipe |-> 0]
AlreadySwiped == [http |-> 200, alreadySwiped |-> TRUE, swipe |-> 0]
SwipeCreated(id) == [http |-> 201, alreadySwiped |-> FALSE, swipe |-> id]

\* the three checks at the head of the route
SwipeBodyValid(b) ==
  b.userId # NULL /\ b.vacancyId # NULL /\ b.direction \in {"left", "right"}

\* (variant: only a swipe to the left counts)
HasSwipedLeft(rows, u, v) ==
  \E i \in DOMAIN rows :
    rows[i].userId = u /\ rows[i].vacancyId = v /\ rows[i].direction = "left"

\* DbStorage.hasSwipedVacancy(userId, vacancyId)
HasSwipedVacancy(rows, u, v) ==
  \E i \in DOMAIN rows : rows[i].userId = u /\ rows[i].vacancyId = v

\* DbStorage.createSwipe(userId, vacancyId, direction)
CreateSwipe(rows, u, v, d) == Append(rows, SwipeRow(u, v, d))

\* DbStorage.deleteAllSwipes(userId)
DeleteAllSwipes(rows, u) == SelectSeq(rows, LAMBDA x : x.userId # u)

SwipeInit ==
  /\ users = [u \in UserIds |-> ValidTokens]
  /\ resumes = {}
  /\ applications = <<>>
  /\ swipes = <<>>
  /\ compat = <<CompatRow("u1", "v1", 80, "green", "stored")>>
  /\ delq = {}
  /\ areq = <<>>
  /\ tasks = <<>>
  /\ sreq = <<>>
  /\ crashed = FALSE
  /\ creq = <<>>
  /\ rreq = <<>>
  /\ jreq = <<>>
  /\ RestInit

\* request arrives: validation, then hasSwipedVacancy is sent
SwipeReceive(b) ==
  /\ Len(sreq) < MaxSwipeReq
  /\ sreq' = Append(sreq,
       [userId |-> b.userId, vacancyId |-> b.vacancyId,
        direction |-> b.direction,
        pc |-> IF SwipeBodyValid(b) THEN "check" ELSE "done",
        resp |-> IF SwipeBodyValid(b) THEN NoSwipeResp ELSE SwipeBadRequest])
  /\ UNCHANGED <<rest, others, users, resumes, applications, swipes, compat, delq, areq,
                 tasks, crashed>>

\* the pre-check returns: `if (alreadySwiped) return res.json(...)`, otherwise
\* createSwipe is sent
SwipeCheck(r) ==
  /\ r \in DOMAIN sreq
  /\ sreq[r].pc = "check"
  /\ IF HasSwipedVacancy(swipes, sreq[r].userId, sreq[r].vacancyId)
     THEN sreq' = [sreq EXCEPT ![r].pc = "done", ![r].resp = AlreadySwiped]
     ELSE sreq' = [sreq EXCEPT ![r].pc = "insert"]
  /\ UNCHANGED <<rest, others, users, resumes, applications, swipes, compat, delq, areq,
                 tasks, crashed>>

\* the insert returns; deleteCompatibility is sent and not awaited; 201
SwipeInsert(r) ==
  /\ r \in DOMAIN sreq
  /\ sreq[r].pc = "insert"
  /\ LET q == sreq[r] IN
     /\ swipes' = CreateSwipe(swipes, q.userId, q.vacancyId, q.direction)
     /\ delq' = delq \cup {CompatKey(q.userId, q.vacancyId)}
     /\ sreq' = [sreq EXCEPT ![r].pc = "done",
                             ![r].resp = SwipeCreated(Len(swipes'))]
  /\ UNCHANGED <<rest, others, users, resumes, applications, compat, areq, tasks, crashed>>

\* POST /api/swipes/reset for a user that has swipes; a search of that user
\* that is being handled is marked (resetSince)
ResetSwipes(u) ==
  /\ \E i \in DOMAIN swipes : swipes[i].userId = u
  /\ swipes' = DeleteAllSwipes(swipes, u)
  /\ jreq' = [q \in DOMAIN jreq |->
               IF jreq[q].userId = u /\ jreq[q].pc # "done"
               THEN [jreq[q] EXCEPT !.resetSince = TRUE] ELSE jreq[q]]
  /\ UNCHANGED <<rest, users, resumes, applications, compat, delq, areq, tasks,
                 sreq, crashed, creq, rreq>>

\* ------------------------------------------------------------------------
\* POST /api/ai-compatibility/calc
\* ------------------------------------------------------------------------
\* OPENROUTER_API_KEY is set and resumes have 50 characters or more, so
\* that calculateCompatibility reaches its fetch.
CONCURRENCY == 3

\* scoreToColor(score)
ScoreToColor(score) ==
  IF score >= 75 THEN "green" ELSE IF score >= 40 THEN "yellow" ELSE "red"

\* what calculateCompatibility returns: the score the model answers, clamped
\* and coloured, or its 50/yellow record when the fetch fails, the answer is
\* not 2xx or no score can be extracted
LLMScores == {30}
ScoredResult(v, score) ==
  [vacancyId |-> v, score |-> score, color |-> ScoreToColor(score),
   explanation |-> "explained"]
AnalysisFailed(v) ==
  [vacancyId |-> v, score |-> 50, color |-> "yellow",
   explanation |-> "analysisError"]
CalcOutcomes(v) == {ScoredResult(v, x) : x \in LLMScores} \cup {AnalysisFailed(v)}

\* JavaScript numbers of the response parsing.  Scores are kept in tenths up
\* to Math.round; NaN is an integer below every number of the model, so that
\* `NaN >= 75` and `NaN >= 40` are false as in JavaScript, and the operators
\* below pass it through as Math.round, Math.min and Math.max do.
NaN == -1000000
\* the `score` member of the parsed JSON object
JsonNumber(tenths) == [t |-> "number", tenths |-> tenths, text |-> ""]
JsonString(text) == [t |-> "string", tenths |-> 0, text |-> text]
JsonNull == [t |-> "null", tenths |-> 0, text |-> ""]
JsonMissing == [t |-> "missing", tenths |-> 0, text |-> ""]
JsonScores ==
  {JsonNumber(x) : x \in {-50, 0, 394, 395, 745, 750, 1000, 1004, 2500}}
  \cup {JsonString("85"), JsonString("high"), JsonNull, JsonMissing}
\* ToNumber, applied by Math.round to its argument, in tenths
ToNumber(j) ==
  CASE j.t = "number" -> j.tenths
    [] j.t = "string" -> (IF j.text = "85" THEN 850 ELSE NaN)
    [] j.t = "null" -> 0
    [] OTHER -> NaN
\* Math.round of a number given in tenths
MathRound(tenths) == IF tenths = NaN THEN NaN ELSE (tenths + 5) \div 10
\* Math.max(0, Math.min(100, x))
Clamp(x) ==
  IF x = NaN THEN NaN ELSE IF x > 100 THEN 100 ELSE IF x < 0 THEN 0 ELSE x

\* answers of the chat-completion call: the fetch rejects; a non-2xx
\* status; content with a JSON object; content without one in which a
\* pattern of the fallback finds digits; content with neither
NoJson == JsonMissing
LLMAnswers ==
  {[kind |-> k, score |-> NoJson, digits |-> 0] :
     k \in {"rejects", "notOk", "noScore"}}
  \cup {[kind |-> "json", score |-> j, digits |-> 0] : j \in JsonScores}
  \cup {[kind |-> "prose", score |-> NoJson, digits |-> d] :
          d \in {7, 85, 250}}

\* calculateCompatibility(resume, vacancy) for an answer of the model
CalculateCompatibility(v, answer) ==
  CASE answer.kind = "json" ->
         ScoredResult(v, Clamp(MathRound(ToNumber(answer.score))))
    [] answer.kind = "prose" -> ScoredResult(v, Clamp(answer.digits))
    [] OTHER -> AnalysisFailed(v)

\* `score: integer("score").notNull()`: the column takes integers only
IntegerColumnAccepts(x) == x # NaN

\* the record pushed by the catch of a scoring task
CalcErrorResult(v) ==
  [vacancyId |-> v, score |-> 50, color |-> "yellow",
   explanation |-> "calcError"]
\* the record pushed for a cached row
CachedResult(v, row) ==
  [vacancyId |-> v, score |-> row.score, color |-> row.color,
   explanation |-> row.explanation]
NoCalcResult == [vacancyId |-> NULL, score |-> 0, color |-> NULL,
                 explanation |-> NULL]

\* a scoring task: the async function pushed on `processing`
ScoringTask(v) == [vacancyId |-> v, pc |-> "llm", result |-> NoCalcResult]

\* LLM calls of request record q that are in flight
InFlight(q) ==
  Cardinality({i \in DOMAIN q.processing : q.processing[i].pc = "llm"})

\* (variant: `processing` is emptied without awaiting its tasks, so a slot
\* is always free)
SlotAlwaysFree(q) == TRUE

\* `processing.length < CONCURRENCY`
SlotFree(q) == Len(q.processing) < CONCURRENCY

\* the loops up to their next await: the inner while takes the next vacancy
\* and sends its cache look-up while a slot is free; otherwise Promise.all
\* is awaited
LoopHead(q) ==
  IF q.queue # <<>> /\ SlotFree(q)
  THEN [q EXCEPT !.cur = Head(q.queue), !.queue = Tail(q.queue),
                 !.pc = "cache"]
  ELSE [q EXCEPT !.cur = NULL, !.pc = "wait"]

\* request arrives: the schema is parsed and the selected resume is read;
\* after and seen note what precedes the request: the scoring requests
\* already answered and the vacancies of the batch the user has swiped
CalcReceive(b, limit) ==
  /\ Len(creq) < limit
  /\ creq' = Append(creq,
       [userId |-> b.userId, queue |-> b.vacancies, cur |-> NULL,
        processing |-> <<>>, results |-> <<>>, llmCalls |-> 0,
        hits |-> 0, after |-> {r \in DOMAIN creq : creq[r].pc = "done"},
        seen |-> {b.vacancies[i] :
                    i \in {j \in DOMAIN b.vacancies :
                             HasSwipedVacancy(swipes, b.userId,
                                              b.vacancies[j])}},
        pc |-> IF b.userId = NULL THEN "done" ELSE "resume",
        http |-> IF b.userId = NULL THEN 400 ELSE 0])
  /\ UNCHANGED <<rest, users, resumes, applications, swipes, compat, delq, areq,
                 tasks, sreq, crashed, rreq, jreq>>

\* the resume look-up returns: 400 without a selected resume with content,
\* an empty answer for an empty batch, otherwise the loop starts
CalcResume(r) ==
  /\ r \in DOMAIN creq
  /\ creq[r].pc = "resume"
  /\ \E sel \in SelectedResumeRows(creq[r].userId) :
       IF sel = NoResume \/ sel.content = ""
       THEN creq' = [creq EXCEPT ![r].pc = "done", ![r].http = 400]
       ELSE IF creq[r].queue = <<>>
       THEN creq' = [creq EXCEPT ![r].pc = "done", ![r].http = 200]
       ELSE creq' = [creq EXCEPT ![r] = LoopHead(creq[r])]
  /\ UNCHANGED <<rest, users, resumes, applications, swipes, compat, delq, areq,
                 tasks, sreq, crashed, rreq, jreq>>

\* storage.getCompatibility returns: a row (any of the matching rows, the
\* query has no order) is pushed as the result; without a row a scoring
\* task starts and runs up to the fetch of calculateCompatibility
CalcCacheCheck(r) ==
  /\ r \in DOMAIN creq
  /\ creq[r].pc = "cache"
  /\ LET q == creq[r]
         hit == CompatMatches(compat, q.userId, q.cur)
     IN IF hit # {}
        THEN \E i \in hit :
               creq' = [creq EXCEPT ![r] =
                 LoopHead([q EXCEPT
                   !.results = Append(@, CachedResult(q.cur, compat[i])),
                   !.hits = @ + 1])]
        ELSE creq' = [creq EXCEPT ![r] =
               LoopHead([q EXCEPT
                 !.processing = Append(@, ScoringTask(q.cur)),
                 !.llmCalls = @ + 1])]
  /\ UNCHANGED <<rest, users, resumes, applications, swipes, compat, delq, areq,
                 tasks, sreq, crashed, rreq, jreq>>

\* getCompatibility throws: the catch of the route answers 500; the tasks
\* already started go on
CalcCacheThrows(r) ==
  /\ r \in DOMAIN creq
  /\ creq[r].pc = "cache"
  /\ creq' = [creq EXCEPT ![r].pc = "failed", ![r].cur = NULL,
                          ![r].http = 500]
  /\ UNCHANGED <<rest, users, resumes, applications, swipes, compat, delq, areq,
                 tasks, sreq, crashed, rreq, jreq>>

CalcTaskAt(r, i, pcs) ==
  /\ r \in DOMAIN creq
  /\ i \in DOMAIN creq[r].processing
  /\ creq[r].processing[i].pc \in pcs

\* calculateCompatibility returns; saveCompatibility sends its delete
CalcLLMReturn(r, i, result) ==
  /\ CalcTaskAt(r, i, {"llm"})
  /\ creq' = [creq EXCEPT ![r].processing[i].result = result,
                          ![r].processing[i].pc = "saveDelete"]
  /\ UNCHANGED <<rest, users, resumes, applications, swipes, compat, delq, areq,
                 tasks, sreq, crashed, rreq, jreq>>

\* saveCompatibility: the delete is executed, the insert is sent
CalcSaveDelete(r, i) ==
  /\ CalcTaskAt(r, i, {"saveDelete"})
  /\ compat' = DeleteCompatRows(compat, creq[r].userId,
                                creq[r].processing[i].vacancyId)
  /\ creq' = [creq EXCEPT ![r].processing[i].pc = "saveInsert"]
  /\ UNCHANGED <<rest, users, resumes, applications, swipes, delq, areq, tasks,
                 sreq, crashed, rreq, jreq>>

\* saveCompatibility: the insert is executed; the task pushes its result.
\* A score the column does not take makes the insert throw (CalcSaveThrows)
CalcSaveInsert(r, i) ==
  /\ CalcTaskAt(r, i, {"saveInsert"})
  /\ IntegerColumnAccepts(creq[r].processing[i].result.score)
  /\ LET t == creq[r].processing[i] IN
     /\ compat' = Append(compat,
          CompatRow(creq[r].userId, t.vacancyId, t.result.score,
                    t.result.color, t.result.explanation))
     /\ creq' = [creq EXCEPT ![r].processing[i].pc = "done",
                             ![r].results = Append(@, t.result)]
  /\ UNCHANGED <<rest, users, resumes, applications, swipes, delq, areq, tasks,
                 sreq, crashed, rreq, jreq>>

\* a statement of saveCompatibility throws: the catch of the task pushes
\* its 50/yellow record
CalcSaveThrows(r, i) ==
  /\ CalcTaskAt(r, i, {"saveDelete", "saveInsert"})
  /\ creq' = [creq EXCEPT
       ![r].processing[i].pc = "done",
       ![r].processing[i].result =
          CalcErrorResult(creq[r].processing[i].vacancyId),
       ![r].results =
          Append(@, CalcErrorResult(creq[r].processing[i].vacancyId))]
  /\ UNCHANGED <<rest, users, resumes, applications, swipes, compat, delq, areq,
                 tasks, sreq, crashed, rreq, jreq>>

\* Promise.all(processing) resolves: `processing.length = 0`, then the outer
\* loop goes on or res.json(results)
CalcWaitAll(r) ==
  /\ r \in DOMAIN creq
  /\ creq[r].pc = "wait"
  /\ \A i \in DOMAIN creq[r].processing : creq[r].processing[i].pc = "done"
  /\ LET q == [creq[r] EXCEPT !.processing = <<>>] IN
     IF q.queue # <<>>
     THEN creq' = [creq EXCEPT ![r] = LoopHead(q)]
     ELSE creq' = [creq EXCEPT ![r] = [q EXCEPT !.pc = "done", !.http = 200]]
  /\ UNCHANGED <<rest, users, resumes, applications, swipes, compat, delq, areq,
                 tasks, sreq, crashed, rreq, jreq>>

\* ------------------------------------------------------------------------
\* GET /auth/hh/callback, POST /api/hh/resumes/sync,
\* POST /api/hh/resumes/select
\* ------------------------------------------------------------------------
\* resumes.id is a serial column; row n of the table has id ResumeIdSeq[n]
ResumeIdSeq == <<"res1", "res2", "res3", "res4">>
SerialId(n) == IF n \in DOMAIN ResumeIdSeq THEN ResumeIdSeq[n] ELSE NULL
\* parseInt(resumeId) of the select route; -1 stands for NaN
ParseInt(s) ==
  CASE s = "1" -> 1 [] s = "2" -> 2 [] s = "2px" -> 2 [] s = "9" -> 9
    [] OTHER -> -1

\* what GET https://api.hh.ru/resumes/mine lists for the user
HHResumeLists == {<<>>, <<"h1">>, <<"h1", "h2">>}
\* resumeToText(detail) of a resume fetched now
SyncedText == "hhTextSynced"
\* the token pair of the authorization_code grant
CallbackTokens == [hhAccessToken |-> "a2", hhRefreshToken |-> "r2",
                   hhTokenExpiresAt |-> "future"]

\* bodies / queries of the three routes
ResumeBodies ==
  { [kind |-> "callback", userId |-> "u1", resumeId |-> NULL, code |-> "c1"],
    [kind |-> "callback", userId |-> "u1", resumeId |-> NULL, code |-> NULL],
    [kind |-> "sync", userId |-> "u1", resumeId |-> NULL, code |-> NULL],
    [kind |-> "sync", userId |-> NULL, resumeId |-> NULL, code |-> NULL],
    [kind |-> "select", userId |-> "u1", resumeId |-> "1", code |-> NULL],
    [kind |-> "select", userId |-> "u1", resumeId |-> "2px", code |-> NULL],
    [kind |-> "select", userId |-> "u1", resumeId |-> "9", code |-> NULL],
    [kind |-> "select", userId |-> "u1", resumeId |-> NULL, code |-> NULL] }

\* `if (!code)`, `if (!userId)`, `if (!userId || !resumeId)`
ResumeBodyValid(b) ==
  CASE b.kind = "callback" -> b.code # NULL
    [] b.kind = "sync" -> b.userId # NULL
    [] OTHER -> b.userId # NULL /\ b.resumeId # NULL

\* the first awaited call of each route
FirstStep(kind) ==
  CASE kind = "callback" -> "exchange"
    [] kind = "sync" -> "token"
    [] OTHER -> "deselect"

\* the answer to an invalid request: redirect to /?hhAuth=error, or 400
InvalidAnswer(kind) == IF kind = "callback" THEN 302 ELSE 400

\* (variant: a new row is never inserted selected)
NewRowNeverSelected(kind, synced) == FALSE

\* `selected: true` of the callback, `selected: syncedResumes.length === 0`
\* of the sync route
NewRowSelected(kind, synced) == kind = "callback" \/ synced = 0

\* db.insert(resumes).values({...})
InsertResume(rows, u, h, sel) ==
  rows \cup {[id |-> SerialId(Cardinality(rows) + 1), userId |-> u,
              hhResumeId |-> h, content |-> SyncedText, selected |-> sel]}

\* db.update(resumes).set({title, content, contentJson, updatedAt})
\*   .where(eq(resumes.id, id))
UpdateResumeContent(rows, id) ==
  {IF x.id = id THEN [x EXCEPT !.content = SyncedText] ELSE x : x \in rows}

\* db.update(resumes).set({ selected: false }).where(eq(userId))
DeselectAll(rows, u) ==
  {IF x.userId = u THEN [x EXCEPT !.selected = FALSE] ELSE x : x \in rows}

\* db.update(resumes).set({ selected: true }).where(and(eq(id), eq(userId)))
SelectOne(rows, id, u) ==
  {IF x.id = id /\ x.userId = u THEN [x EXCEPT !.selected = TRUE] ELSE x :
     x \in rows}

ResumeAt(r, pcs) == r \in DOMAIN rreq /\ rreq[r].pc \in pcs
SetResumeReq(r, q) == rreq' = [rreq EXCEPT ![r] = q]
ResumeDone(q, http, outcome) ==
  [q EXCEPT !.pc = "done", !.http = http, !.outcome = outcome,
            !.list = <<>>, !.cur = NULL, !.existing = NULL]

\* the loop `for (const hhResume of hhResumes)` takes its next element, or
\* the route answers: redirect /?userId=..&hhAuth=success, or 200
NextResume(q) ==
  IF q.list # <<>>
  THEN [q EXCEPT !.cur = Head(q.list), !.list = Tail(q.list),
                 !.existing = NULL, !.pc = "detail"]
  ELSE ResumeDone(q, IF q.kind = "callback" THEN 302 ELSE 200, "success")

\* request arrives and is validated; `cleared` records that the request's
\* own deselect statement changed a selected flag
ResumeReceive(b, limit) ==
  /\ Len(rreq) < limit
  /\ rreq' = Append(rreq,
       [kind |-> b.kind, userId |-> b.userId, resumeId |-> b.resumeId,
        pc |-> IF ResumeBodyValid(b) THEN FirstStep(b.kind) ELSE "done",
        list |-> <<>>, cur |-> NULL, existing |-> NULL, synced |-> 0,
        cleared |-> FALSE,
        http |-> IF ResumeBodyValid(b) THEN 0 ELSE InvalidAnswer(b.kind),
        outcome |-> IF ResumeBodyValid(b) THEN NULL ELSE "error"])
  /\ UNCHANGED <<rest, users, resumes, applications, swipes, compat, delq, areq,
                 tasks, sreq, crashed, creq, jreq>>

\* exchangeCodeForTokens and getHHUserInfo return, or one of them throws:
\* `catch (error) { res.redirect("/?hhAuth=error") }`
CallbackExchange(r, ok) ==
  /\ ResumeAt(r, {"exchange"})
  /\ SetResumeReq(r, IF ok THEN [rreq[r] EXCEPT !.pc = "user"]
                     ELSE ResumeDone(rreq[r], 302, "error"))
  /\ UNCHANGED <<rest, users, resumes, applications, swipes, compat, delq, areq,
                 tasks, sreq, crashed, creq, jreq>>

\* the user of userInfo.id is found and its token columns are set
CallbackUser(r) ==
  /\ ResumeAt(r, {"user"})
  /\ users' = [users EXCEPT ![rreq[r].userId] = CallbackTokens]
  /\ SetResumeReq(r, [rreq[r] EXCEPT !.pc = "list"])
  /\ UNCHANGED <<rest, resumes, applications, swipes, compat, delq, areq, tasks,
                 sreq, crashed, creq, jreq>>

\* getValidAccessToken of the sync route: the users row is read
SyncToken(r) ==
  /\ ResumeAt(r, {"token"})
  /\ LET q == rreq[r]
         user == users[q.userId]
     IN IF user.hhAccessToken = NULL \/ user.hhRefreshToken = NULL
        THEN SetResumeReq(r, ResumeDone(q, 401, "error"))
        ELSE IF user.hhTokenExpiresAt = "future"
        THEN SetResumeReq(r, [q EXCEPT !.pc = "list"])
        ELSE SetResumeReq(r, [q EXCEPT !.pc = "refresh"])
  /\ UNCHANGED <<rest, users, resumes, applications, swipes, compat, delq, areq,
                 tasks, sreq, crashed, creq, jreq>>

\* refreshHHToken returns or throws (null, 401)
SyncRefresh(r, ok) ==
  /\ ResumeAt(r, {"refresh"})
  /\ SetResumeReq(r, IF ok THEN [rreq[r] EXCEPT !.pc = "tokUpdate"]
                     ELSE ResumeDone(rreq[r], 401, "error"))
  /\ UNCHANGED <<rest, users, resumes, applications, swipes, compat, delq, areq,
                 tasks, sreq, crashed, creq, jreq>>

SyncTokenUpdate(r) ==
  /\ ResumeAt(r, {"tokUpdate"})
  /\ users' = [users EXCEPT ![rreq[r].userId] = RefreshedTokens]
  /\ SetResumeReq(r, [rreq[r] EXCEPT !.pc = "list"])
  /\ UNCHANGED <<rest, resumes, applications, swipes, compat, delq, areq, tasks,
                 sreq, crashed, creq, jreq>>

\* getHHResumes returns the list
ResumeList(r, list) ==
  /\ ResumeAt(r, {"list"})
  /\ SetResumeReq(r, NextResume([rreq[r] EXCEPT !.list = list]))
  /\ UNCHANGED <<rest, users, resumes, applications, swipes, compat, delq, areq,
                 tasks, sreq, crashed, creq, jreq>>

\* getHHResumeDetail returns; the look-up of the stored row is sent
ResumeDetail(r) ==
  /\ ResumeAt(r, {"detail"})
  /\ SetResumeReq(r, [rreq[r] EXCEPT !.pc = "check"])
  /\ UNCHANGED <<rest, users, resumes, applications, swipes, compat, delq, areq,
                 tasks, sreq, crashed, creq, jreq>>

\* getHHResumes or getHHResumeDetail throws: the callback logs and
\* redirects as after a sync (`non-fatal`), the sync route answers 500
ResumeFetchThrows(r) ==
  /\ ResumeAt(r, {"list", "detail"})
  /\ SetResumeReq(r, IF rreq[r].kind = "callback"
                     THEN ResumeDone(rreq[r], 302, "success")
                     ELSE ResumeDone(rreq[r], 500, "error"))
  /\ UNCHANGED <<rest, users, resumes, applications, swipes, compat, delq, areq,
                 tasks, sreq, crashed, creq, jreq>>

\* `const [existing] = await db.select()...where(userId, hhResumeId)`: the
\* first of the rows the query returns
ResumeCheck(r) ==
  /\ ResumeAt(r, {"check"})
  /\ LET q == rreq[r]
         found == {x \in resumes :
                     x.userId = q.userId /\ x.hhResumeId = q.cur}
     IN IF found = {}
        THEN SetResumeReq(r, [q EXCEPT !.existing = NULL, !.pc = "write"])
        ELSE \E x \in found :
               SetResumeReq(r, [q EXCEPT !.existing = x.id, !.pc = "write"])
  /\ UNCHANGED <<rest, users, resumes, applications, swipes, compat, delq, areq,
                 tasks, sreq, crashed, creq, jreq>>

\* `if (existing)` the row is updated, otherwise a row is inserted
ResumeWrite(r) ==
  /\ ResumeAt(r, {"write"})
  /\ LET q == rreq[r] IN
     /\ resumes' =
          IF q.existing # NULL
          THEN UpdateResumeContent(resumes, q.existing)
          ELSE InsertResume(resumes, q.userId, q.cur,
                            NewRowSelected(q.kind, q.synced))
     /\ SetResumeReq(r, NextResume([q EXCEPT !.synced = @ + 1]))
  /\ UNCHANGED <<rest, users, applications, swipes, compat, delq, areq, tasks,
                 sreq, crashed, creq, jreq>>

\* select route: every row of the user is deselected
SelectDeselect(r) ==
  /\ ResumeAt(r, {"deselect"})
  /\ resumes' = DeselectAll(resumes, rreq[r].userId)
  /\ SetResumeReq(r, [rreq[r] EXCEPT !.pc = "select",
                                      !.cleared = resumes' # resumes])
  /\ UNCHANGED <<rest, users, applications, swipes, compat, delq, areq, tasks,
                 sreq, crashed, creq, jreq>>

\* the row of that id and user is selected; `if (!updated)` 404
SelectSet(r) ==
  /\ ResumeAt(r, {"select"})
  /\ LET q == rreq[r]
         id == SerialId(ParseInt(q.resumeId))
         hit == \E x \in resumes : x.id = id /\ x.userId = q.userId
     IN /\ resumes' = SelectOne(resumes, id, q.userId)
        /\ SetResumeReq(r, IF hit THEN ResumeDone(q, 200, "success")
                           ELSE ResumeDone(q, 404, "error"))
  /\ UNCHANGED <<rest, users, applications, swipes, compat, delq, areq, tasks,
                 sreq, crashed, creq, jreq>>

\* ------------------------------------------------------------------------
\* GET /api/hh/jobs
\* ------------------------------------------------------------------------
\* data.items of https://api.hh.ru/vacancies, by vacancy id
HHPages == {<<"v1", "v2">>, <<"v2">>, <<>>}
SearchQueries == {[userId |-> "u1"], [userId |-> NULL]}

\* (variant: only swipes to the left are looked up)
GetLeftSwipedIds(rows, u) ==
  {rows[i].vacancyId :
     i \in {j \in DOMAIN rows :
              rows[j].userId = u /\ rows[j].direction = "left"}}

\* DbStorage.getSwipedVacancyIds(userId)
GetSwipedVacancyIds(rows, u) ==
  {rows[i].vacancyId : i \in {j \in DOMAIN rows : rows[j].userId = u}}

\* jobs.filter(job => !swipedSet.has(job.id))
FilterSwiped(jobs, swipedIds) == SelectSeq(jobs, LAMBDA v : v \notin swipedIds)

JobsAt(q, pcs) == q \in DOMAIN jreq /\ jreq[q].pc \in pcs
\* res.json({jobs, ...}) / res.status(500).json({..., jobs: []})
JobsAnswer(rec, http, jobs) ==
  [rec EXCEPT !.pc = "done", !.http = http, !.jobs = jobs]

\* request arrives, the page is requested from the HH API.  recorded and
\* swiped note what precedes the request: the vacancies whose swipe by this
\* user has been answered 201, and those with a swipe row of this user
JobsReceive(b) ==
  /\ Len(jreq) < MaxSearch
  /\ jreq' = Append(jreq,
       [userId |-> b.userId, pc |-> "fetch", jobs |-> <<>>, http |-> 0,
        recorded |-> {sreq[r].vacancyId :
                        r \in {x \in DOMAIN sreq :
                                 /\ sreq[x].userId = b.userId
                                 /\ sreq[x].resp.http = 201}},
        swiped |-> {swipes[i].vacancyId :
                      i \in {j \in DOMAIN swipes :
                               swipes[j].userId = b.userId}},
        resetSince |-> FALSE])
  /\ UNCHANGED <<rest, users, resumes, applications, swipes, compat, delq, areq,
                 tasks, sreq, crashed, creq, rreq>>

\* the page arrives and is adapted; `if (userId)` the swiped ids are
\* requested, otherwise the page is the answer
JobsFetch(q, hhPage) ==
  /\ JobsAt(q, {"fetch"})
  /\ jreq' = [jreq EXCEPT ![q] =
                IF jreq[q].userId # NULL
                THEN [jreq[q] EXCEPT !.jobs = hhPage, !.pc = "swiped"]
                ELSE JobsAnswer(jreq[q], 200, hhPage)]
  /\ UNCHANGED <<rest, users, resumes, applications, swipes, compat, delq, areq,
                 tasks, sreq, crashed, creq, rreq>>

\* the fetch rejects or `!response.ok`, or getSwipedVacancyIds throws: 500
\* with `jobs: []`
JobsThrows(q) ==
  /\ JobsAt(q, {"fetch", "swiped"})
  /\ jreq' = [jreq EXCEPT ![q] = JobsAnswer(jreq[q], 500, <<>>)]
  /\ UNCHANGED <<rest, users, resumes, applications, swipes, compat, delq, areq,
                 tasks, sreq, crashed, creq, rreq>>

\* getSwipedVacancyIds returns; the page is filtered and sent
JobsFilter(q) ==
  /\ JobsAt(q, {"swiped"})
  /\ jreq' = [jreq EXCEPT ![q] =
                JobsAnswer(jreq[q], 200,
                           FilterSwiped(jreq[q].jobs,
                                        GetSwipedVacancyIds(swipes,
                                                            jreq[q].userId)))]
  /\ UNCHANGED <<rest, users, resumes, applications, swipes, compat, delq, areq,
                 tasks, sreq, crashed, creq, rreq>>

\* ------------------------------------------------------------------------
\* GET /api/hh/areas
\* ------------------------------------------------------------------------
\* `const HH_AREAS_TTL_MS = 1000 * 60 * 60`
HH_AREAS_TTL_MS == 1000 * 60 * 60

\* the tree GET https://api.hh.ru/areas answers: nodes with id, name and
\* the list of their sub-areas; ids are strings, which String() leaves as
\* they are
Moscow == [id |-> "1", name |-> "Moskva", areas |-> <<>>]
Russia == [id |-> "113", name |-> "Rossiya", areas |-> <<Moscow>>]
Nameless == [id |-> "2", name |-> "", areas |-> <<>>]
AreaTrees == { <<>>, <<Russia>>, <<Russia, Nameless>> }

\* `walk`: a node with id and name is pushed before its sub-areas are walked
RECURSIVE walk(_), walkAll(_)
walk(node) ==
  (IF node.id # "" /\ node.name # ""
   THEN <<[id |-> node.id, name |-> node.name]>> ELSE <<>>)
  \o walkAll(node.areas)
walkAll(nodes) ==
  IF nodes = <<>> THEN <<>> ELSE walk(Head(nodes)) \o walkAll(Tail(nodes))

\* `hhAreasCache && hhAreasCacheUpdatedAt &&
\*  now - hhAreasCacheUpdatedAt < HH_AREAS_TTL_MS`
CacheFresh(now) ==
  /\ hhAreasCache # <<>>
  /\ hhAreasCacheUpdatedAt # 0
  /\ now - hhAreasCacheUpdatedAt < HH_AREAS_TTL_MS

AreasAt(r, pcs) == r \in DOMAIN greq /\ greq[r].pc \in pcs
AreasAnswer(r, status, body) ==
  greq' = [greq EXCEPT ![r] = [@ EXCEPT !.pc = "done", !.status = status,
                                        !.body = body]]

\* the request arrives: answered from the cache when it is fresh, else the
\* upstream fetch is sent
AreasReceive(limit) ==
  /\ Len(greq) < limit
  /\ IF CacheFresh(clock)
     THEN greq' = Append(greq, [pc |-> "done", now |-> clock, status |-> 200,
                                body |-> hhAreasCache[1]])
     ELSE greq' = Append(greq, [pc |-> "fetch", now |-> clock, status |-> 0,
                                body |-> <<>>])
  /\ UNCHANGED <<hhAreasCache, hhAreasCacheUpdatedAt, clock, page, flights,
                 others, users, resumes, applications, swipes, compat, delq,
                 areq, tasks, sreq, crashed>>

\* the upstream answers: `response.ok` decides between json() and text()
AreasFetch(r, ok) ==
  /\ AreasAt(r, {"fetch"})
  /\ greq' = [greq EXCEPT ![r].pc = IF ok THEN "json" ELSE "text"]
  /\ UNCHANGED <<hhAreasCache, hhAreasCacheUpdatedAt, clock, page, flights,
                 others, users, resumes, applications, swipes, compat, delq,
                 areq, tasks, sreq, crashed>>

\* the body of a non-2xx answer is logged
AreasNotOk(r) ==
  /\ AreasAt(r, {"text"})
  /\ AreasAnswer(r, 500, <<>>)
  /\ UNCHANGED <<hhAreasCache, hhAreasCacheUpdatedAt, clock, page, flights,
                 others, users, resumes, applications, swipes, compat, delq,
                 areq, tasks, sreq, crashed>>

\* fetch, json() or text() rejects: the catch answers 500
AreasThrows(r) ==
  /\ AreasAt(r, {"fetch", "json", "text"})
  /\ AreasAnswer(r, 500, <<>>)
  /\ UNCHANGED <<hhAreasCache, hhAreasCacheUpdatedAt, clock, page, flights,
                 others, users, resumes, applications, swipes, compat, delq,
                 areq, tasks, sreq, crashed>>

\* the tree is parsed, flattened and stored with the `now` of the arrival
AreasStore(r, data) ==
  /\ AreasAt(r, {"json"})
  /\ LET flat == walkAll(data) IN
     /\ hhAreasCache' = <<flat>>
     /\ hhAreasCacheUpdatedAt' = greq[r].now
     /\ AreasAnswer(r, 200, flat)
  /\ UNCHANGED <<clock, page, flights,
                 others, users, resumes, applications, swipes, compat, delq,
                 areq, tasks, sreq, crashed>>

\* time passes
Tick(limit) ==
  /\ clock < limit * ClockStep
  /\ clock' = clock + ClockStep
  /\ UNCHANGED <<hhAreasCache, hhAreasCacheUpdatedAt, greq, page, flights,
                 others, users, resumes, applications, swipes, compat, delq,
                 areq, tasks, sreq, crashed>>

\* ------------------------------------------------------------------------
\* VacanciesPage: executeSearch, handleSwipe, loadMoreJobs
\* ------------------------------------------------------------------------
\* the filters of a search, and the page GET /api/hh/jobs answers for them:
\* every vacancy carries the filters it was fetched with
Filters == {"fA", "fB"}
JobsPage(f, b) ==
  [n \in 1..PageSize |-> [id |-> <<f, b, n>>, filters |-> f]]
JobsPages(f, b) == {<<>>, JobsPage(f, b)}

\* a request of the page that is not yet answered.  token is the value of
\* searchTokenRef.current the request's callback holds, 0 for loadMoreJobs,
\* which reads none
Flight(kind, token, f, b, ids) ==
  [kind |-> kind, token |-> token, filters |-> f, batch |-> b, ids |-> ids]
FlightAt(q, kinds) == q \in flights /\ q.kind \in kinds

\* ids of `jobs.slice(0, 5)`
FirstFive(jobs) ==
  {jobs[k].id : k \in 1..(IF Len(jobs) < 5 THEN Len(jobs) ELSE 5)}

\* `currentJobs`: jobs.slice(currentIndex) without the swiped ones, as the
\* indices into jobs (from 1)
CurrentJobs ==
  {k \in (page.currentIndex + 1)..Len(page.jobs) :
     page.jobs[k].id \notin page.swipedIds}
Lowest(S) == CHOOSE k \in S : \A m \in S : k <= m

\* the result POST /api/ai-compatibility/calc answers for a vacancy
CompatResult(id) == [vacancyId |-> id, score |-> 80]
\* `newMap.set(r.vacancyId, r)` for every result
MapSet(map, results) ==
  {x \in map : \A r \in results : r.vacancyId # x.vacancyId} \cup results

\* (variant: every answer is taken for the active search's)
IsActiveSearchAlways(q) == TRUE
\* `currentToken !== searchTokenRef.current` is false
IsActiveSearch(q) == q.token = page.searchTokenRef

\* executeSearch(searchFilters) up to its await: called by the search
\* button, the area check boxes, the reset and clear buttons and the
\* profession effects
ExecuteSearch(f, limit) ==
  /\ page.searchTokenRef < limit
  /\ page' = [page EXCEPT !.isSearching = TRUE, !.searchTokenRef = @ + 1]
  /\ flights' = flights \cup
                {Flight("search", page.searchTokenRef + 1, f, 1, {})}
  /\ UNCHANGED <<hhAreasCache, hhAreasCacheUpdatedAt, greq, clock,
                 others, users, resumes, applications, swipes, compat, delq,
                 areq, tasks, sreq, crashed>>

\* fetchHHJobs resolves: executeSearch after its await
SearchResponse(q, jobs, hasMore) ==
  /\ FlightAt(q, {"search"})
  /\ IF ~IsActiveSearch(q)
     THEN /\ page' = [page EXCEPT !.stale = TRUE]
          /\ flights' = flights \ {q}
     ELSE /\ page' = [page EXCEPT !.jobs = jobs, !.hasMore = hasMore,
                                  !.batch = 1, !.currentIndex = 0,
                                  !.history = <<>>, !.swipedIds = {},
                                  !.appliedFilters = q.filters,
                                  !.compatibilityMap = {},
                                  !.isSearching = FALSE]
          /\ flights' =
               (flights \ {q}) \cup
               (IF page.userId # NULL /\ Len(jobs) > 0
                THEN {Flight("compat", q.token, q.filters, 1,
                             FirstFive(jobs))}
                ELSE {})
  /\ UNCHANGED <<hhAreasCache, hhAreasCacheUpdatedAt, greq, clock,
                 others, users, resumes, applications, swipes, compat, delq,
                 areq, tasks, sreq, crashed>>

\* fetchHHJobs rejects: the catch logs, the finally clears isSearching for
\* the active search
SearchFails(q) ==
  /\ FlightAt(q, {"search"})
  /\ page' = [page EXCEPT
                !.isSearching = IF IsActiveSearch(q) THEN FALSE
                                ELSE @]
  /\ flights' = flights \ {q}
  /\ UNCHANGED <<hhAreasCache, hhAreasCacheUpdatedAt, greq, clock,
                 others, users, resumes, applications, swipes, compat, delq,
                 areq, tasks, sreq, crashed>>

\* fetchCompatibility resolves with a result for every vacancy asked for:
\* the `.then` of executeSearch (which takes the results of jobIdsToFetch)
\* and of handleSwipe (which takes every result)
CompatResponse(q) ==
  /\ FlightAt(q, {"compat", "next"})
  /\ LET results == {CompatResult(id) : id \in q.ids}
         taken == IF q.kind = "compat"
                  THEN {r \in results : r.vacancyId \in q.ids}
                  ELSE results
     IN IF ~IsActiveSearch(q)
        THEN page' = [page EXCEPT !.stale = TRUE]
        ELSE page' = [page EXCEPT
                        !.compatibilityMap = MapSet(@, taken)]
  /\ flights' = flights \ {q}
  /\ UNCHANGED <<hhAreasCache, hhAreasCacheUpdatedAt, greq, clock,
                 others, users, resumes, applications, swipes, compat, delq,
                 areq, tasks, sreq, crashed>>

\* fetchCompatibility rejects: the `.catch` logs
CompatFails(q) ==
  /\ FlightAt(q, {"compat", "next"})
  /\ flights' = flights \ {q}
  /\ UNCHANGED <<page, hhAreasCache, hhAreasCacheUpdatedAt, greq, clock,
                 others, users, resumes, applications, swipes, compat, delq,
                 areq, tasks, sreq, crashed>>

\* handleSwipe(direction) on the top card.  applyAsync and recordSwipe are
\* sent and not waited for; their answers leave the page's state alone, and
\* both directions do the same to it.  The vacancy five places on is scored
\* when it has no entry in the map
HandleSwipe(limit) ==
  /\ Cardinality(flights) < limit
  /\ ~page.isSwiping
  /\ CurrentJobs # {}
  /\ LET k == Lowest(CurrentJobs)
         next == page.currentIndex + 5 + 1
     IN
     /\ page' = [page EXCEPT !.isSwiping = TRUE,
                             !.swipedIds = @ \cup {page.jobs[k].id},
                             !.history = Append(@, page.currentIndex),
                             !.currentIndex = @ + 1]
     /\ flights' =
          IF /\ next \in DOMAIN page.jobs
             /\ page.userId # NULL
             /\ \A x \in page.compatibilityMap :
                  x.vacancyId # page.jobs[next].id
          THEN flights \cup
               {Flight("next", page.searchTokenRef,
                       page.jobs[next].filters, page.batch,
                       {page.jobs[next].id})}
          ELSE flights
  /\ UNCHANGED <<hhAreasCache, hhAreasCacheUpdatedAt, greq, clock,
                 others, users, resumes, applications, swipes, compat, delq,
                 areq, tasks, sreq, crashed>>

\* `setTimeout(() => setIsSwiping(false), 300)`
SwipeTimer ==
  /\ page.isSwiping
  /\ page' = [page EXCEPT !.isSwiping = FALSE]
  /\ UNCHANGED <<flights, hhAreasCache, hhAreasCacheUpdatedAt, greq, clock,
                 others, users, resumes, applications, swipes, compat, delq,
                 areq, tasks, sreq, crashed>>

\* loadMoreJobs up to its await.  Its button is rendered under showLoadMore:
\* `currentJobs.length === 0 && hasMore && jobs.length > 0`
LoadMoreJobs(limit) ==
  /\ CurrentJobs = {} /\ Len(page.jobs) > 0
  /\ page.hasMore /\ ~page.isLoadingMore /\ page.appliedFilters # NULL
  /\ page.batch < limit
  /\ page' = [page EXCEPT !.isLoadingMore = TRUE]
  /\ flights' = flights \cup
                {Flight("more", 0, page.appliedFilters, page.batch + 1, {})}
  /\ UNCHANGED <<hhAreasCache, hhAreasCacheUpdatedAt, greq, clock,
                 others, users, resumes, applications, swipes, compat, delq,
                 areq, tasks, sreq, crashed>>

\* fetchHHJobs resolves: loadMoreJobs after its await
MoreResponse(q, jobs, hasMore) ==
  /\ FlightAt(q, {"more"})
  /\ page' = [page EXCEPT !.jobs = @ \o jobs, !.batch = q.batch,
                          !.hasMore = hasMore, !.isLoadingMore = FALSE]
  /\ flights' = flights \ {q}
  /\ UNCHANGED <<hhAreasCache, hhAreasCacheUpdatedAt, greq, clock,
                 others, users, resumes, applications, swipes, compat, delq,
                 areq, tasks, sreq, crashed>>

\* fetchHHJobs rejects: the catch logs, the finally clears isLoadingMore
MoreFails(q) ==
  /\ FlightAt(q, {"more"})
  /\ page' = [page EXCEPT !.isLoadingMore = FALSE]
  /\ flights' = flights \ {q}
  /\ UNCHANGED <<hhAreasCache, hhAreasCacheUpdatedAt, greq, clock,
                 others, users, resumes, applications, swipes, compat, delq,
                 areq, tasks, sreq, crashed>>

\* ------------------------------------------------------------------------
\* POST /api/applications
\* ------------------------------------------------------------------------
\* bodies insertApplicationSchema.parse accepts: the schema is derived from
\* the table, where status is `text("status").notNull().default("pending")`,
\* so status is any string or absent; job title and company are required
CreateBodies ==
  { [jobTitle |-> "title", company |-> "company", status |-> NULL],
    [jobTitle |-> "title", company |-> "company", status |-> "success"],
    [jobTitle |-> "title", company |-> "company", status |-> "archived"] }

\* DbStorage.createApplication(application): the row the insert stores,
\* absent columns at their defaults
CreatedRow(b) ==
  [userId |-> NULL, vacancyId |-> NULL, jobTitle |-> b.jobTitle,
   company |-> b.company, resumeId |-> NULL, coverLetter |-> NULL,
   hhNegotiationId |-> NULL,
   status |-> IF b.status = NULL THEN "pending" ELSE b.status,
   errorReason |-> NULL]

\* the route parses the body, inserts the row and answers 201 with it; no
\* background task is queued for the row
CreateApplication(b, limit) ==
  /\ ~crashed
  /\ Len(applications) < limit
  /\ applications' = Append(applications, CreatedRow(b))
  /\ tasks' = Append(tasks, IdleTask)
  /\ UNCHANGED <<rest, others, users, resumes, swipes, compat, delq, areq,
                 sreq, crashed>>

\* ------------------------------------------------------------------------
\* Specifications
\* ------------------------------------------------------------------------
Healthy(limit) ==
  \/ \E b \in ApplyBodies : ApplyReceive(b, limit)
  \/ \E r \in DOMAIN areq : ApplyInsert(r)
  \/ \E r \in DOMAIN areq : ApplyRespond(r)
  \/ \E k \in delq : DeleteCompatExec(k)
  \/ \E a \in DOMAIN tasks : BgLoadResume(a)
  \/ \E a \in DOMAIN tasks, o \in LLMOutcomes : BgGenerate(a, o)
  \/ \E a \in DOMAIN tasks : BgTokenSelect(a)
  \/ \E a \in DOMAIN tasks, ok \in BOOLEAN : BgRefresh(a, ok)
  \/ \E a \in DOMAIN tasks : BgTokenUpdate(a)
  \/ \E a \in DOMAIN tasks : BgSelectResume(a)
  \/ \E a \in DOMAIN tasks, h \in HHResponses : BgApply(a, h)
  \/ \E a \in DOMAIN tasks : BgApplyThrows(a)
  \/ \E a \in DOMAIN tasks : BgWrite(a)

\* store statements of the background phase that throw: the updates of the
\* row, and the statements before them
WriteFaults ==
  \/ \E a \in DOMAIN tasks : BgWriteThrows(a)
  \/ \E a \in DOMAIN tasks : BgCatchWriteThrows(a)

StoreFaults ==
  \/ \E a \in DOMAIN tasks : BgLoadResumeThrows(a)
  \/ \E a \in DOMAIN tasks : BgTokenUpdateThrows(a)
  \/ \E a \in DOMAIN tasks : BgSelectThrows(a)
  \/ WriteFaults

\* the application pipeline with every outcome of its collaborators and of
\* the store statements of the background phase
Pipeline(limit) == Healthy(limit) \/ StoreFaults

Next == Pipeline(MaxApply)

Spec == Init /\ [][Next]_vars

\* a step of the handler of request r / of the background task of row a
RequestStep(r) == ApplyInsert(r) \/ ApplyRespond(r)
TaskStep(a) ==
  \/ BgLoadResume(a) \/ BgLoadResumeThrows(a)
  \/ \E o \in LLMOutcomes : BgGenerate(a, o)
  \/ BgTokenSelect(a) \/ BgSelectThrows(a)
  \/ \E ok \in BOOLEAN : BgRefresh(a, ok)
  \/ BgTokenUpdate(a) \/ BgTokenUpdateThrows(a)
  \/ BgSelectResume(a)
  \/ \E h \in HHResponses : BgApply(a, h)
  \/ BgApplyThrows(a)
  \/ BgWrite(a) \/ BgWriteThrows(a) \/ BgCatchWriteThrows(a)

\* the event loop runs every continuation whose awaited call has settled,
\* and every awaited call settles (returns or throws)
FairSpec ==
  /\ Init
  /\ [][Pipeline(MaxFairApply)]_vars
  /\ \A r \in 1..MaxFairApply : WF_vars(RequestStep(r))
  /\ \A a \in 1..MaxFairApply : WF_vars(TaskStep(a))

\* everything that writes the applications table: the pipeline, with its
\* updates succeeding or throwing, next to the route that edits cover letters
ServerNext ==
  \/ Healthy(MaxApply)
  \/ WriteFaults
  \/ \E id \in DOMAIN applications : PatchCoverLetter(id)

ServerSpec == Init /\ [][ServerNext]_vars

\* the swipe routes
SwipeNext ==
  \/ \E b \in SwipeBodies : SwipeReceive(b)
  \/ \E r \in DOMAIN sreq : SwipeCheck(r)
  \/ \E r \in DOMAIN sreq : SwipeInsert(r)
  \/ \E u \in SwipeUsers : ResetSwipes(u)
  \/ \E k \in delq : DeleteCompatExec(k)

SwipeSpec == SwipeInit /\ [][SwipeNext]_vars

\* the scorer alone, with batches longer than the concurrency limit
BatchVacancies == <<"v1", "v2", "v3", "v4", "v5">>
BatchBodies ==
  { [userId |-> "u1", vacancies |-> BatchVacancies],
    [userId |-> "u1", vacancies |-> <<"v2">>],
    [userId |-> "u1", vacancies |-> <<>>],
    [userId |-> "u2", vacancies |-> <<"v1">>],
    [userId |-> NULL, vacancies |-> <<"v1">>] }

ScorerInit ==
  /\ users = [u \in UserIds |-> ValidTokens]
  /\ resumes = {HHResume("u1")}
  /\ applications = <<>>
  /\ swipes = <<>>
  /\ compat \in { <<>>,
                  <<CompatRow("u1", "v1", 80, "green", "stored")>>,
                  <<CompatRow("u1", "v1", 80, "green", "stored"),
                    CompatRow("u1", "v3", 30, "red", "stored")>> }
  /\ delq = {}
  /\ areq = <<>>
  /\ tasks = <<>>
  /\ sreq = <<>>
  /\ crashed = FALSE
  /\ creq = <<>>
  /\ rreq = <<>>
  /\ jreq = <<>>
  /\ RestInit

Scorer ==
  \/ \E r \in DOMAIN creq : CalcResume(r)
  \/ \E r \in DOMAIN creq : CalcCacheCheck(r)
  \/ \E r \in DOMAIN creq : CalcCacheThrows(r)
  \/ \E r \in DOMAIN creq : \E i \in DOMAIN creq[r].processing :
       \E x \in CalcOutcomes(creq[r].processing[i].vacancyId) :
         CalcLLMReturn(r, i, x)
  \/ \E r \in DOMAIN creq : \E i \in DOMAIN creq[r].processing :
       CalcSaveDelete(r, i)
  \/ \E r \in DOMAIN creq : \E i \in DOMAIN creq[r].processing :
       CalcSaveInsert(r, i)
  \/ \E r \in DOMAIN creq : \E i \in DOMAIN creq[r].processing :
       CalcSaveThrows(r, i)
  \/ \E r \in DOMAIN creq : CalcWaitAll(r)

BatchNext ==
  \/ \E b \in BatchBodies : CalcReceive(b, MaxBatchReq)
  \/ Scorer

BatchSpec == ScorerInit /\ [][BatchNext]_vars

\* the scorer next to the swipe route, which deletes cache rows
CacheBodies ==
  { [userId |-> "u1", vacancies |-> <<"v1">>],
    [userId |-> "u1", vacancies |-> <<"v1", "v2">>] }
CacheSwipeBodies ==
  { [userId |-> "u1", vacancyId |-> "v1", direction |-> "right"] }

CacheNext ==
  \/ \E b \in CacheBodies : CalcReceive(b, MaxCalc)
  \/ Scorer
  \/ \E b \in CacheSwipeBodies : Len(sreq) < MaxCacheSwipe /\ SwipeReceive(b)
  \/ \E r \in DOMAIN sreq : SwipeCheck(r)
  \/ \E r \in DOMAIN sreq : SwipeInsert(r)
  \/ \E k \in delq : DeleteCompatExec(k)

CacheSpec == ScorerInit /\ [][CacheNext]_vars

\* the routes that write the resumes table
ResumeInit ==
  /\ users \in [UserIds -> TokenStates]
  /\ resumes \in {{}, {HHResume("u1")}}
  /\ applications = <<>>
  /\ swipes = <<>>
  /\ compat = <<>>
  /\ delq = {}
  /\ areq = <<>>
  /\ tasks = <<>>
  /\ sreq = <<>>
  /\ crashed = FALSE
  /\ creq = <<>>
  /\ rreq = <<>>
  /\ jreq = <<>>
  /\ RestInit

ResumeNext ==
  \/ \E b \in ResumeBodies : ResumeReceive(b, MaxResumeReq)
  \/ \E r \in DOMAIN rreq, ok \in BOOLEAN : CallbackExchange(r, ok)
  \/ \E r \in DOMAIN rreq : CallbackUser(r)
  \/ \E r \in DOMAIN rreq : SyncToken(r)
  \/ \E r \in DOMAIN rreq, ok \in BOOLEAN : SyncRefresh(r, ok)
  \/ \E r \in DOMAIN rreq : SyncTokenUpdate(r)
  \/ \E r \in DOMAIN rreq, l \in HHResumeLists : ResumeList(r, l)
  \/ \E r \in DOMAIN rreq : ResumeDetail(r)
  \/ \E r \in DOMAIN rreq : ResumeFetchThrows(r)
  \/ \E r \in DOMAIN rreq : ResumeCheck(r)
  \/ \E r \in DOMAIN rreq : ResumeWrite(r)
  \/ \E r \in DOMAIN rreq : SelectDeselect(r)
  \/ \E r \in DOMAIN rreq : SelectSet(r)

ResumeSpec == ResumeInit /\ [][ResumeNext]_vars

\* the search route next to the swipe routes
SearchSwipeBodies ==
  [userId : {"u1"}, vacancyId : SwipeVacancies, direction : Directions]

SearchNext ==
  \/ \E b \in SearchSwipeBodies : SwipeReceive(b)
  \/ \E r \in DOMAIN sreq : SwipeCheck(r)
  \/ \E r \in DOMAIN sreq : SwipeInsert(r)
  \/ \E u \in SwipeUsers : ResetSwipes(u)
  \/ \E k \in delq : DeleteCompatExec(k)
  \/ \E b \in SearchQueries : JobsReceive(b)
  \/ \E q \in DOMAIN jreq, p \in HHPages : JobsFetch(q, p)
  \/ \E q \in DOMAIN jreq : JobsThrows(q)
  \/ \E q \in DOMAIN jreq : JobsFilter(q)

SearchSpec == SwipeInit /\ [][SearchNext]_vars

\* the pipeline of a user with an external resume, over every state of the
\* stored tokens
TokenInit ==
  /\ users \in [UserIds -> TokenStates \cup {NoExpiryTokens}]
  /\ resumes = {HHResume("u1")}
  /\ applications = <<>>
  /\ swipes = <<>>
  /\ compat = <<>>
  /\ delq = {}
  /\ areq = <<>>
  /\ tasks = <<>>
  /\ sreq = <<>>
  /\ crashed = FALSE
  /\ creq = <<>>
  /\ rreq = <<>>
  /\ jreq = <<>>
  /\ RestInit

TokenSpec == TokenInit /\ [][Next]_vars

\* the scorer over every answer of the model
ScoreBodies ==
  { [userId |-> "u1", vacancies |-> <<"v1">>],
    [userId |-> "u1", vacancies |-> <<"v2", "v1">>] }

ScoreNext ==
  \/ \E b \in ScoreBodies : CalcReceive(b, MaxScoreReq)
  \/ \E r \in DOMAIN creq : CalcResume(r)
  \/ \E r \in DOMAIN creq : CalcCacheCheck(r)
  \/ \E r \in DOMAIN creq : CalcCacheThrows(r)
  \/ \E r \in DOMAIN creq : \E i \in DOMAIN creq[r].processing :
       \E answer \in LLMAnswers :
         CalcLLMReturn(r, i,
           CalculateCompatibility(creq[r].processing[i].vacancyId, answer))
  \/ \E r \in DOMAIN creq : \E i \in DOMAIN creq[r].processing :
       CalcSaveDelete(r, i)
  \/ \E r \in DOMAIN creq : \E i \in DOMAIN creq[r].processing :
       CalcSaveInsert(r, i)
  \/ \E r \in DOMAIN creq : \E i \in DOMAIN creq[r].processing :
       CalcSaveThrows(r, i)
  \/ \E r \in DOMAIN creq : CalcWaitAll(r)

ScoreSpec == ScorerInit /\ [][ScoreNext]_vars

\* the region list route, with the clock
AreasNext ==
  \/ AreasReceive(MaxAreasReq)
  \/ Tick(MaxTick)
  \/ \E r \in DOMAIN greq :
       \/ \E ok \in BOOLEAN : AreasFetch(r, ok)
       \/ AreasNotOk(r)
       \/ AreasThrows(r)
       \/ \E data \in AreaTrees : AreasStore(r, data)

AreasSpec == SwipeInit /\ [][AreasNext]_vars

\* the vacancies page, with the answers of its requests in any order
PageNext ==
  \/ \E f \in Filters : ExecuteSearch(f, MaxSearchToken)
  \/ HandleSwipe(MaxFlights)
  \/ SwipeTimer
  \/ LoadMoreJobs(MaxBatch)
  \/ \E q \in flights :
       \/ \E jobs \in JobsPages(q.filters, q.batch), hasMore \in BOOLEAN :
            SearchResponse(q, jobs, hasMore)
       \/ \E jobs \in JobsPages(q.filters, q.batch), hasMore \in BOOLEAN :
            MoreResponse(q, jobs, hasMore)
       \/ SearchFails(q)
       \/ CompatResponse(q)
       \/ CompatFails(q)
       \/ MoreFails(q)

PageSpec == SwipeInit /\ [][PageNext]_vars

\* the routes that insert or update rows of the applications table
StoreNext ==
  \/ Healthy(MaxFairApply)
  \/ WriteFaults
  \/ \E id \in DOMAIN applications : PatchCoverLetter(id)
  \/ \E b \in CreateBodies : CreateApplication(b, MaxRows)

StoreSpec == Init /\ [][StoreNext]_vars

\* ------------------------------------------------------------------------
\* Properties
\* ------------------------------------------------------------------------
Terminal == {"demo", "success", "failed"}
Acked(a) == \E r \in DOMAIN areq : areq[r].appId = a /\ areq[r].resp = Queued(a)
Finished(a) == a \in DOMAIN tasks /\ tasks[a].pc = "done"
Calls(t) == t.genCalls + t.refreshCalls + t.applyCalls
TerminalRow(a) ==
  a \in DOMAIN applications /\ applications[a].status \in Terminal

C2_AckBeforeExternalCalls ==
  [][/\ \A a \in DOMAIN tasks :
          (tasks'[a].pc # "none" /\ a \in DOMAIN tasks'
           /\ Calls(tasks'[a]) > Calls(tasks[a])) => Acked(a)
     /\ \A r \in DOMAIN areq :
          areq[r].resp # NoResp => areq'[r].resp = areq[r].resp
    ]_vars

C2_Witness ==
  \E a \in DOMAIN tasks :
    /\ Acked(a)
    /\ tasks[a].genCalls = 1 /\ tasks[a].refreshCalls = 1
    /\ tasks[a].applyCalls = 1
    /\ applications[a].status = "failed"

\* C6: every row created by the route leaves pending for demo, success or
\* failed, whatever the generator, the refresh, the look-ups, the
\* submission and the updates return or throw, unless the process exits.
C6_EveryApplicationTerminates ==
  \A a \in 1..MaxFairApply :
    [](a \in DOMAIN applications =>
         <>(crashed \/ TerminalRow(a)))

C6_Witness ==
  \E a \in DOMAIN tasks :
    /\ Finished(a)
    /\ tasks[a].storeErr
    /\ tasks[a].hh = "threw"
    /\ applications[a].status = "failed"

\* the request that created row a and what it asked for
HasReq(a) == \E r \in DOMAIN areq : areq[r].appId = a
ReqOf(a) == CHOOSE r \in DOMAIN areq : areq[r].appId = a
DemoReq(a) ==
  HasReq(a) /\ (areq[ReqOf(a)].isDemo \/ areq[ReqOf(a)].userId = NULL)
AuthReq(a) ==
  HasReq(a) /\ ~areq[ReqOf(a)].isDemo /\ areq[ReqOf(a)].userId # NULL
HasExternalResume(u) ==
  \E x \in resumes : x.userId = u /\ x.selected /\ x.hhResumeId # NULL

\* C3: a non-demo request of a user whose selected resume has an external
\* id, whose token the token manager obtains (stored and valid, or
\* refreshed) and whose submission the API answers 201 with a Location,
\* ends, when the update of its row does not throw, with the row at
\* success, a cover letter and a negotiation id.
AcceptCase(a) ==
  /\ AuthReq(a)
  /\ HasExternalResume(areq[ReqOf(a)].userId)
  /\ tasks[a].tok \in {"valid", "refreshed"}
  /\ tasks[a].hh = "created"
  /\ ~tasks[a].writeErr
SuccessRow(a) ==
  /\ applications[a].status = "success"
  /\ applications[a].coverLetter # NULL
  /\ applications[a].hhNegotiationId # NULL
  /\ applications[a].errorReason = NULL
C3_AcceptedEndsSuccess ==
  \A a \in 1..MaxFairApply :
    [](Acked(a) =>
         <>(crashed \/ (Finished(a) /\ (AcceptCase(a) => SuccessRow(a)))))

C3_Witness ==
  \E a \in DOMAIN tasks :
    /\ Finished(a) /\ AcceptCase(a) /\ tasks[a].tok = "refreshed"
    /\ tasks[a].storeErr
    /\ applications[a].hhNegotiationId = "n1"

\* C4: a request with isDemo set or without user ends, when the update of
\* its row does not throw, with the row at demo and a cover letter;
\* its task never calls the token manager, the refresh endpoint or the
\* negotiations endpoint.
DemoRow(a) ==
  /\ applications[a].status = "demo"
  /\ applications[a].coverLetter # NULL
NoExternalCalls(a) ==
  /\ tasks[a].tokenCalls = 0
  /\ tasks[a].refreshCalls = 0
  /\ tasks[a].applyCalls = 0
C4_DemoEndsDemo ==
  /\ \A a \in 1..MaxFairApply :
       [](Acked(a) =>
            <>(crashed \/ (Finished(a) /\ ((DemoReq(a) /\ ~tasks[a].writeErr)
                                            => DemoRow(a)))))
  /\ [](\A a \in DOMAIN tasks : DemoReq(a) => NoExternalCalls(a))

C4_Witness ==
  \E a \in DOMAIN tasks :
    /\ Finished(a) /\ DemoReq(a)
    /\ areq[ReqOf(a)].userId = NULL /\ ~areq[ReqOf(a)].isDemo
    /\ DemoRow(a) /\ NoExternalCalls(a)

\* C5: a non-demo request of a user for whom the token manager finds no
\* stored tokens, or an expired token whose refresh fails, never reaches the
\* negotiations endpoint and ends, when the update of its row does not
\* throw, at failed with the `not authenticated` reason and a cover letter.
NoTokenCase(a) ==
  AuthReq(a) /\ tasks[a].tok \in {"missing", "refreshFailed"}
C5_NoTokenEndsFailed ==
  \A a \in DOMAIN tasks :
    NoTokenCase(a) =>
      /\ tasks[a].applyCalls = 0
      /\ (Finished(a) /\ ~tasks[a].writeErr) =>
           /\ applications[a].status = "failed"
           /\ applications[a].errorReason = ErrNotAuth
           /\ applications[a].coverLetter # NULL
           /\ applications[a].hhNegotiationId = NULL

C5_Witness ==
  \E a \in DOMAIN tasks :
    /\ Finished(a) /\ NoTokenCase(a) /\ tasks[a].tok = "refreshFailed"
    /\ applications[a].errorReason = ErrNotAuth
    /\ applications[a].coverLetter = GeneratedLetter

\* C7 as stated: a row is never deleted and changes only by the one update
\* of its own task, which ends the task.
BgFinalWrite(a) ==
  /\ tasks[a].pc \in {"write", "catchWrite"}
  /\ tasks[a].writes = 0
  /\ tasks'[a].pc = "done"
C7_OnlyTaskWrites ==
  [][\A a \in DOMAIN applications :
       /\ a \in DOMAIN applications'
       /\ applications'[a] # applications[a] => BgFinalWrite(a)
    ]_vars

\* C7 amended: a row is never deleted; its own task updates it at most
\* once, and exactly once by the time the task has returned; every other
\* change of an existing row is an edit of its cover letter alone (PATCH
\* /api/applications/:id/cover-letter).
OnlyCoverLetterDiffers(old, new) ==
  /\ new.coverLetter # old.coverLetter
  /\ new = [old EXCEPT !.coverLetter = new.coverLetter]
C7_TaskWritesOnceElseLetterEdit ==
  [][\A a \in DOMAIN applications :
       /\ a \in DOMAIN applications'
       /\ applications'[a] # applications[a] =>
            \/ BgFinalWrite(a)
            \/ /\ OnlyCoverLetterDiffers(applications[a], applications'[a])
               /\ tasks' = tasks
       /\ tasks'[a].writes <= 1
       /\ tasks'[a].pc = "done" => tasks'[a].writes = 1
    ]_vars

C7_Witness ==
  \E a \in DOMAIN applications :
    /\ Finished(a) /\ tasks[a].writes = 1
    /\ applications[a].status = "success"
    /\ applications[a].coverLetter = EditedLetter

\* C8: for each row the cover-letter generator is called at most once and
\* the negotiations endpoint at most once, whatever they return.
C8_NoRetry ==
  \A a \in DOMAIN tasks : tasks[a].genCalls <= 1 /\ tasks[a].applyCalls <= 1

C8_Witness ==
  \E a \in DOMAIN tasks :
    /\ Finished(a) /\ tasks[a].hh = "rejected"
    /\ tasks[a].genCalls = 1 /\ tasks[a].applyCalls = 1
    /\ applications[a].errorReason = ErrApi

\* C9: every request that passed the insert has a row of its own: ids are
\* pairwise distinct, also for the same user and vacancy and with a swipe
\* and an application of that pair already stored, the row carries the
\* request's user and vacancy, and once answered its task is scheduled.
C9_NoApplicationDedup ==
  /\ Len(applications) = Cardinality({r \in DOMAIN areq : areq[r].appId # 0})
  /\ \A r \in DOMAIN areq :
       areq[r].appId # 0 =>
         /\ areq[r].appId \in DOMAIN applications
         /\ applications[areq[r].appId].userId = areq[r].userId
         /\ applications[areq[r].appId].vacancyId = areq[r].vacancyId
         /\ \A q \in DOMAIN areq : q # r => areq[q].appId # areq[r].appId
         /\ areq[r].resp # NoResp =>
              /\ tasks[areq[r].appId].pc # "none"
              /\ tasks[areq[r].appId].isDemo = areq[r].isDemo

C9_Witness ==
  \E r, q \in DOMAIN areq :
    /\ r # q
    /\ areq[r].userId = "u1" /\ areq[q].userId = "u1"
    /\ areq[r].vacancyId = areq[q].vacancyId
    /\ areq[r].resp.status = "queued" /\ areq[q].resp.status = "queued"
    /\ areq[r].resp.applicationId # areq[q].resp.applicationId
    /\ HasSwipedVacancy(swipes, "u1", areq[r].vacancyId)

\* C10: when the pre-check of a valid swipe request runs with a row for
\* its user and vacancy in the table, the request is answered
\* alreadySwiped=true, is finished, and the table is as before, whatever
\* the directions of the row and of the request.
C10_SecondSwipeIsNoop ==
  [][\A r \in DOMAIN sreq :
       (/\ sreq[r].pc = "check"
        /\ sreq'[r].pc # "check"
        /\ \E i \in DOMAIN swipes :
             /\ swipes[i].userId = sreq[r].userId
             /\ swipes[i].vacancyId = sreq[r].vacancyId)
       => /\ sreq'[r].resp.alreadySwiped
          /\ sreq'[r].resp.swipe = 0
          /\ sreq'[r].pc = "done"
          /\ swipes' = swipes
    ]_vars

C10_Witness ==
  \E r \in DOMAIN sreq :
    /\ sreq[r].resp.alreadySwiped
    /\ sreq[r].direction = "right"
    /\ \E i \in DOMAIN swipes :
         /\ swipes[i].userId = sreq[r].userId
         /\ swipes[i].vacancyId = sreq[r].vacancyId
         /\ swipes[i].direction = "left"

\* C11: in every state the swipes table holds at most one row for a user
\* and a vacancy, also when requests for the same pair interleave.
C11_AtMostOneSwipePerPair ==
  \A i, j \in DOMAIN swipes :
    (swipes[i].userId = swipes[j].userId
     /\ swipes[i].vacancyId = swipes[j].vacancyId) => i = j

\* the step in which the cache look-up of scoring request r returns
LookupReturns(r) ==
  /\ creq[r].pc = "cache"
  /\ creq'[r].pc # "cache" \/ creq'[r].queue # creq[r].queue

\* C14: in every state at most CONCURRENCY (3) calculateCompatibility calls
\* of one scoring request are in flight, whatever the batch and whatever is
\* cached; a cache look-up that finds a row adds no task to `processing`.
C14_AtMostThreeInFlight ==
  /\ [](\A r \in DOMAIN creq : InFlight(creq[r]) <= CONCURRENCY)
  /\ [][\A r \in DOMAIN creq :
          (/\ LookupReturns(r)
           /\ CompatMatches(compat, creq[r].userId, creq[r].cur) # {})
          => /\ creq'[r].processing = creq[r].processing
             /\ InFlight(creq'[r]) = InFlight(creq[r])
       ]_vars

C14_Witness ==
  \E r \in DOMAIN creq :
    /\ InFlight(creq[r]) = CONCURRENCY
    /\ creq[r].hits = 2
    /\ creq[r].queue = <<>>
    /\ creq[r].pc = "wait"

\* the last record of a sequence
Last(seq) == seq[Len(seq)]
\* the values stored for a user and a vacancy, as a bag: vacancy, score,
\* colour and explanation of every matching row
CachedValues(rows, u, v) ==
  LET m == CompatMatches(rows, u, v)
  IN [x \in {CachedResult(v, rows[i]) : i \in m} |->
        Cardinality({i \in m : CachedResult(v, rows[i]) = x})]
Pairs == {CompatKey(u, v) : u \in SwipeUsers, v \in {"v1", "v2", "v3", "v4", "v5"}}

\* C12: (hit) a cache look-up that finds a row for the user and the vacancy
\* pushes exactly the score, colour and explanation of a stored row and
\* starts no scoring task, hence no LLM call; (store) a task that has scored
\* a vacancy stores exactly the values it returns; (frame) the rows of a
\* pair change only by such a store or by the delete a swipe or an
\* application has sent.  So two successive requests with nothing of that in
\* between return the same values, the second without an LLM call.
C12_CacheHitReturnsStored ==
  [][/\ \A r \in DOMAIN creq :
          (/\ LookupReturns(r)
           /\ creq'[r].http # 500
           /\ CompatMatches(compat, creq[r].userId, creq[r].cur) # {})
          => /\ \E i \in CompatMatches(compat, creq[r].userId, creq[r].cur) :
                  creq'[r].results =
                    Append(creq[r].results,
                           CachedResult(creq[r].cur, compat[i]))
             /\ creq'[r].llmCalls = creq[r].llmCalls
             /\ creq'[r].processing = creq[r].processing
     /\ \A r \in DOMAIN creq : \A i \in DOMAIN creq[r].processing :
          (creq[r].processing[i].pc = "saveInsert"
           /\ creq'[r].processing[i].pc = "done"
           /\ Len(compat') > Len(compat))
          => /\ Last(compat').userId = creq[r].userId
             /\ CachedResult(Last(compat').vacancyId, Last(compat'))
                  = Last(creq'[r].results)
             /\ Last(creq'[r].results).vacancyId
                  = creq[r].processing[i].vacancyId
     /\ \A k \in Pairs :
          CachedValues(compat', k.userId, k.vacancyId)
            # CachedValues(compat, k.userId, k.vacancyId)
          => \/ k \in delq /\ k \notin delq'
             \/ \E r \in DOMAIN creq : \E i \in DOMAIN creq[r].processing :
                  /\ creq[r].userId = k.userId
                  /\ creq[r].processing[i].vacancyId = k.vacancyId
                  /\ creq[r].processing[i].pc \in {"saveDelete", "saveInsert"}
                  /\ creq'[r].processing[i].pc # creq[r].processing[i].pc
    ]_vars

\* two successive requests for <<v1, v2>>: the first scores v2 through the
\* LLM, the second is served from the cache and returns the same records
C12_Witness ==
  \E r1, r2 \in DOMAIN creq :
    /\ r1 \in creq[r2].after
    /\ creq[r2].pc = "done" /\ creq[r2].http = 200
    /\ Len(creq[r2].results) = 2
    /\ creq[r1].llmCalls = 1 /\ creq[r1].hits = 1
    /\ creq[r2].llmCalls = 0 /\ creq[r2].hits = 2
    /\ creq[r2].results = creq[r1].results
    /\ creq[r2].results[2].score = 30

\* C13: once a swipe for a user and a vacancy is recorded and answered and
\* the delete it sent is executed, the cache holds no row for the pair, as
\* long as no scoring request for the pair has arrived after the swipe
\* (such a request recomputes and stores again).
ArrivedAfterSwipe(u, v) ==
  \E q \in DOMAIN creq : creq[q].userId = u /\ v \in creq[q].seen
C13_NoCacheRowAfterSwipe ==
  \A r \in DOMAIN sreq :
    (/\ sreq[r].resp.http = 201
     /\ CompatKey(sreq[r].userId, sreq[r].vacancyId) \notin delq
     /\ ~ArrivedAfterSwipe(sreq[r].userId, sreq[r].vacancyId))
    => CompatMatches(compat, sreq[r].userId, sreq[r].vacancyId) = {}

\* C15: after any sequence of OAuth callbacks, resume syncs and
\* select-resume requests, each user has at most one resume with
\* selected = true.
SelectedOf(u) == {x \in resumes : x.userId = u /\ x.selected}
C15_AtMostOneSelected ==
  \A u \in UserIds : Cardinality(SelectedOf(u)) <= 1

\* C16: the resume text given to the cover-letter generator is, for a
\* request with a user, the content of a selected resume of that user, or
\* empty when none is selected, and never the text the caller sent; for a
\* request without user it is the text the caller sent.
C16_ResumeTextSource ==
  \A a \in DOMAIN tasks :
    (tasks[a].genCalls = 1 /\ HasReq(a)) =>
      LET q == areq[ReqOf(a)]
          sel == {x \in resumes : x.userId = q.userId /\ x.selected}
      IN IF q.userId # NULL
         THEN /\ tasks[a].genInput \in
                   (IF sel = {} THEN {""} ELSE {x.content : x \in sel})
              /\ tasks[a].genInput # q.resumeText
         ELSE tasks[a].genInput = q.resumeText

\* C17 as stated: a search of user u that is answered with a page returns
\* no vacancy whose swipe by u had been recorded when the search arrived,
\* whatever the server has handled in between.
Elems(seq) == {seq[i] : i \in DOMAIN seq}
C18_RefreshFailureReturnsNull ==
  [][\A a \in DOMAIN tasks :
       /\ (tasks[a].pc = "refresh" /\ tasks'[a].tok = "refreshFailed") =>
            /\ users' = users
            /\ tasks'[a].accessToken = NULL
            /\ tasks'[a].pc = "write"
            /\ tasks'[a].set = NotAuthSet(tasks[a].coverLetter)
            /\ ~crashed'
       /\ (tasks[a].pc = "tokSelect" /\ tasks'[a] # tasks[a]) =>
            users' = users
    ]_vars

C18_Witness ==
  \E a \in DOMAIN tasks :
    /\ tasks[a].pc = "done" /\ tasks[a].tok = "refreshFailed"
    /\ tasks[a].refreshCalls = 1
    /\ users[tasks[a].userId] \in {ExpiredTokens, NoExpiryTokens}
    /\ applications[a].status = "failed"
    /\ applications[a].errorReason = ErrNotAuth

\* C19: getValidAccessToken returns a token in two ways only: the stored
\* access token when the stored expiry is present and in the future, without
\* a refresh call; or the access token of the refresh of this call, stored
\* together with that refresh's refresh token and expiry.  A token whose
\* expiry has passed or is missing is never returned.
C19_TokenValidOrRefreshed ==
  [][\A a \in DOMAIN tasks :
       (tasks[a].accessToken = NULL /\ tasks'[a].accessToken # NULL) =>
         LET u == tasks[a].userId IN
         \/ /\ tasks[a].pc = "tokSelect"
            /\ users[u].hhTokenExpiresAt = "future"
            /\ tasks'[a].accessToken = users[u].hhAccessToken
            /\ tasks'[a].refreshCalls = 0
            /\ users' = users
         \/ /\ tasks[a].pc = "tokUpdate"
            /\ tasks[a].refreshCalls = 1
            /\ tasks'[a].accessToken = RefreshedTokens.hhAccessToken
            /\ users'[u] = RefreshedTokens
    ]_vars

C19_Witness ==
  \E a, b \in DOMAIN tasks :
    /\ tasks[a].tok = "refreshed" /\ tasks[a].pc = "apply"
    /\ tasks[a].accessToken = "a1"
    /\ users[tasks[a].userId] = RefreshedTokens
    /\ tasks[b].tok = "valid" /\ tasks[b].pc = "apply"
    /\ tasks[b].accessToken = "a1" /\ tasks[b].refreshCalls = 0

\* C20: a request without vacancyId is answered 400 in the step that
\* receives it, and is over: that step and every later one leave it without
\* row and without task, no row carries a missing vacancy id, and the step
\* changes neither the applications nor the cache nor its pending deletes.
NoVacancy(r) == areq[r].vacancyId = NULL
C20_MissingVacancyRejected ==
  /\ [](\A r \in DOMAIN areq :
          NoVacancy(r) =>
            /\ areq[r].resp = BadRequest
            /\ areq[r].pc = "done"
            /\ areq[r].appId = 0)
  /\ [](\A a \in DOMAIN applications : applications[a].vacancyId # NULL)
  /\ [](\A a \in DOMAIN tasks : tasks[a].vacancyId # NULL \/ tasks[a].pc = "none")
  /\ [][(Len(areq') > Len(areq) /\ areq'[Len(areq')].vacancyId = NULL) =>
          /\ applications' = applications
          /\ tasks' = tasks
          /\ compat' = compat
          /\ delq' = delq
       ]_vars

C20_Witness ==
  \E r, q \in DOMAIN areq :
    /\ NoVacancy(r) /\ areq[r].resp.http = 400
    /\ r < q /\ areq[q].resp = Queued(1)
    /\ Len(applications) = 1 /\ tasks[1].pc = "done"
    /\ compat # <<>>

\* C21: every result calculateCompatibility returns, every result the route
\* answers and every row of the cache has an integer score in 0..100 and the
\* color of its 75/40 bucket, whatever the model answers.
Bucket(score) ==
  CASE score >= 75 -> "green" [] score >= 40 /\ score < 75 -> "yellow"
    [] OTHER -> "red"
ScoredWell(x) == x.score \in 0..100 /\ x.color = Bucket(x.score)
C21_ScoreInRangeAndBucketed ==
  /\ \A r \in DOMAIN creq :
       /\ \A i \in DOMAIN creq[r].processing :
            creq[r].processing[i].pc # "llm" =>
              ScoredWell(creq[r].processing[i].result)
       /\ \A i \in DOMAIN creq[r].results : ScoredWell(creq[r].results[i])
  /\ \A i \in DOMAIN compat : ScoredWell(compat[i])

\* C22: a row changes only in a step of its own task, which changes no other
\* row and no other task; and when a task has returned without a store
\* statement throwing, its row is the one its own request and the outcomes
\* of its own collaborator calls determine, whatever the tasks of other rows
\* (also of the same user and vacancy) have done in between.
LetterOf(a) ==
  IF tasks[a].gen = "throws" THEN ApologyLetter ELSE GeneratedLetter
OwnSet(a) ==
  LET cl == LetterOf(a)
      sel == CHOOSE x \in SelectedResumeRows(tasks[a].userId) : TRUE
  IN CASE DemoReq(a) -> DemoSet(cl)
       [] tasks[a].tok \in {"missing", "refreshFailed"} -> NotAuthSet(cl)
       [] tasks[a].hh = "none" -> NoResumeSet(cl)
       [] tasks[a].hh = "threw" -> CatchSet
       [] tasks[a].hh = "rejected" ->
            ApiFailedSet(cl, sel, ApplyToVacancy(HHRejected))
       [] tasks[a].hh = "created" ->
            SuccessSet(cl, sel, ApplyToVacancy(HHCreated))
       [] OTHER -> SuccessSet(cl, sel, ApplyToVacancy(HHOkNoLocation))
RowAlone(a) ==
  LET q == areq[ReqOf(a)]
  IN ApplySet(InsertedRow(q.userId, q.vacancyId, q.vacancyData), OwnSet(a))
C22_TasksIsolated ==
  /\ [](\A a \in DOMAIN tasks :
          (Finished(a) /\ HasReq(a) /\ ~tasks[a].storeErr) =>
            applications[a] = RowAlone(a))
  /\ [][\A a \in DOMAIN applications :
          applications'[a] # applications[a] =>
            /\ tasks[a].pc \in {"write", "catchWrite"}
            /\ tasks'[a].pc = "done"
            /\ \A b \in DOMAIN applications :
                 b # a => /\ applications'[b] = applications[b]
                          /\ tasks'[b] = tasks[b]
       ]_vars

C22_Witness ==
  /\ Len(applications) = 2
  /\ Finished(1) /\ Finished(2)
  /\ tasks[1].userId = "u1" /\ tasks[2].userId = "u1"
  /\ tasks[1].vacancyId = tasks[2].vacancyId
  /\ ~tasks[1].isDemo /\ ~tasks[2].isDemo
  /\ tasks[1].writes = 1 /\ tasks[2].writes = 1
  /\ tasks[2].tok = "refreshed" /\ tasks[1].tok = "valid"
  /\ applications[1].status = "failed" /\ applications[1].errorReason = ErrApi
  /\ applications[1].coverLetter = ApologyLetter
  /\ applications[2].status = "success"
  /\ applications[2].coverLetter = GeneratedLetter

\* C23 as stated: a task in which any call threw (the generator, the token
\* refresh, a look-up, the submission or a store statement) ends with its
\* row failed with the internal-error reason, and the process never sees an
\* unhandled rejection.
Threw(a) ==
  \/ tasks[a].gen = "throws"
  \/ tasks[a].tok = "refreshFailed"
  \/ tasks[a].hh = "threw"
  \/ tasks[a].storeErr
C23_AnyExceptionEndsFailedGeneric ==
  /\ ~crashed
  /\ \A a \in DOMAIN tasks :
       (tasks[a].pc = "done" /\ Threw(a)) =>
         /\ applications[a].status = "failed"
         /\ applications[a].errorReason = ErrInternal

\* C23 amended: the outer catch is entered exactly when the users-row or
\* second resume look-up, the submission call or an update of the row inside
\* the try throws; it sends one update, which sets failed and the
\* internal-error reason and nothing else.  When that update throws as well,
\* the task rejects unhandled and the row stays as it was; the process sees
\* an unhandled rejection in no other way.  A throwing generator is handled
\* where it is called: the apology letter is kept and the task goes on.
C23_OuterCatchEndsFailedGeneric ==
  /\ [](crashed => \E a \in DOMAIN tasks : tasks[a].pc = "rejected")
  /\ [][\A a \in DOMAIN tasks :
          /\ (tasks[a].pc # "catchWrite" /\ tasks'[a].pc = "catchWrite") =>
               /\ tasks[a].pc \in {"tokSelect", "resume2", "apply", "write"}
               /\ tasks'[a].hh = "threw" \/ tasks'[a].storeErr
               /\ applications' = applications
          /\ (tasks[a].pc = "catchWrite" /\ tasks'[a].pc # "catchWrite") =>
               \/ /\ tasks'[a].pc = "done"
                  /\ ~crashed'
                  /\ applications'[a] =
                       [applications[a] EXCEPT !.status = "failed",
                                               !.errorReason = ErrInternal]
               \/ /\ tasks'[a].pc = "rejected"
                  /\ crashed'
                  /\ applications' = applications
          /\ (tasks[a].pc = "generate" /\ tasks'[a].gen = "throws") =>
               /\ tasks'[a].coverLetter = ApologyLetter
               /\ tasks'[a].pc \in {"write", "tokSelect"}
       ]_vars

C23_Witness ==
  \E a, b \in DOMAIN tasks :
    /\ tasks[a].pc = "done" /\ tasks[a].hh = "threw"
    /\ applications[a].status = "failed"
    /\ applications[a].errorReason = ErrInternal
    /\ applications[a].coverLetter = NULL
    /\ tasks[b].pc = "rejected" /\ crashed
    /\ applications[b].status = "pending"

\* C24: a non-demo request of a user whose token the token manager obtains
\* and who has no selected resume, or a selected resume without external
\* id, never reaches the negotiations endpoint, and ends, when no store
\* statement of its task throws, failed with the `no resume selected`
\* reason and the generated cover letter stored.
NoResumeCase(a) ==
  /\ AuthReq(a)
  /\ tasks[a].tok \in {"valid", "refreshed"}
  /\ ~HasExternalResume(areq[ReqOf(a)].userId)
C24_NoResumeEndsFailed ==
  \A a \in DOMAIN tasks :
    NoResumeCase(a) =>
      /\ tasks[a].applyCalls = 0
      /\ (Finished(a) /\ ~tasks[a].storeErr) =>
           /\ applications[a].status = "failed"
           /\ applications[a].errorReason = ErrNoResume
           /\ applications[a].coverLetter = LetterOf(a)
           /\ applications[a].hhNegotiationId = NULL
           /\ applications[a].resumeId = NULL

C24_Witness ==
  \E a \in DOMAIN tasks :
    /\ Finished(a) /\ NoResumeCase(a)
    /\ resumes = {ManualResume("u1")}
    /\ tasks[a].tok = "refreshed"
    /\ applications[a].errorReason = ErrNoResume
    /\ applications[a].coverLetter = GeneratedLetter

\* C25: whatever the negotiations endpoint answers, the result applyToVacancy
\* returns to the task carries exactly one of a negotiation id and a
\* non-empty error description, never neither and never both.
OneOfIdOrError(result) ==
  (result.id # NULL) # (result.error # NULL /\ result.error # "")
C25_ResultHasIdOrError ==
  [][\A a \in DOMAIN tasks :
       (/\ a \in DOMAIN tasks'
        /\ tasks[a].pc = "apply" /\ tasks'[a].pc # "apply"
        /\ tasks'[a].hh # "threw")
       => OneOfIdOrError(tasks'[a].result)]_vars

\* C26: at any moment at most one request of the region list route is
\* between sending its upstream fetch and storing or dropping its answer.
Refreshing == {r \in DOMAIN greq : greq[r].pc \in {"fetch", "json", "text"}}
C26_AtMostOneRefresh == Cardinality(Refreshing) <= 1

C28_JobsFetchedWithAppliedFilters ==
  \A k \in DOMAIN page.jobs : page.jobs[k].filters = page.appliedFilters

\* C29: a select request answered 404 `Resume not found` has changed no
\* selected flag of the user's resumes.
C29_NotFoundChangesNoFlag ==
  \A r \in DOMAIN rreq :
    (rreq[r].kind = "select" /\ rreq[r].pc = "done" /\ rreq[r].http = 404)
    => ~rreq[r].cleared

====
